---- MODULE Spec2Model ----
(***************************************************************************)
(* A model of the SHIFT event pipeline (meigsy/shift):                     *)
(*   - the ingestion gateway's submit-batch path                           *)
(*     (pipeline/watch_events/services/ingestion.py),                      *)
(*   - the intervention selector worker                                    *)
(*     (pipeline/intervention_selector/main.py and src/),                  *)
(*   - the gateway's authentication and its submit-interaction,            *)
(*     get-context and reset handlers (pipeline/watch_events/main.py),     *)
(*   - the state estimator's Cloud Function and pipeline                   *)
(*     (pipeline/state_estimator/main.py and src/pipeline.py),             *)
(*   - the conversational agent's request handlers, middleware and tool    *)
(*     (pipeline/conversational_agent).                                    *)
(*                                                                         *)
(* Twelve specifications share the module.  SpecIngest runs concurrent     *)
(* submit-batch calls against the dedup store, the raw-batch table and     *)
(* the ingestion topic.  SpecInterv runs selector runs, get-context calls  *)
(* and app interactions against the intervention_instances table.          *)
(* SpecBurst runs a burst of selector runs alone.  SpecSelector runs one   *)
(* selector message next to calls of bucket_stress, SpecSelect calls       *)
(* select_intervention on its own, and SpecHandler gives the selector's    *)
(* handler one message, well-formed or not, once or twice.  SpecGateway    *)
(* follows one request from its Authorization header to its answer, and    *)
(* SpecSaved runs save and unsave events, flow completions, a reset        *)
(* request and get-context.  SpecStored runs get-context over the rows     *)
(* the instance table and the interaction log can hold, SpecFlowLog calls  *)
(* has_completed_flow over small logs, SpecEstimator runs state-estimator  *)
(* runs from their triggering message to the publishing of the new state   *)
(* estimates, and SpecAgent runs concurrent requests to the agent.         *)
(*                                                                         *)
(* Every handler is a sequence of steps; a step ends with an external call  *)
(* that writes (Firestore set, BigQuery insert or UPDATE, Pub/Sub publish) *)
(* or with the reads a later write depends on, and consecutive reads of    *)
(* tables that no single request writes together are one step.  Other      *)
(* requests interleave between the steps, as they do across the worker     *)
(* instances of the deployed services.  An external call that can fail     *)
(* has its failure as one of the outcomes of the step.                     *)
(***************************************************************************)
EXTENDS Integers, Sequences, FiniteSets, TLC

VARIABLES
    \* ---- ingestion gateway: submit-batch ----
    gcp,          \* TRUE iff init_gcp_clients() created db, bq_client, publisher
    lock,         \* Firestore collection ingested_events: dedup key -> document
    rawRows,      \* BigQuery table shift_data.watch_events
    published,    \* messages accepted by the watch_events Pub/Sub topic
    call,         \* the submit-batch calls: call id -> frame of process_watch_events
    \* ---- selector, get-context, submit-interaction ----
    now,          \* wall clock, in minutes
    estimates,    \* BigQuery table shift_data.state_estimates
    instances,    \* BigQuery table shift_data.intervention_instances: id -> row
    interactions, \* BigQuery table shift_data.app_interactions
    sel,          \* selector runs: run id -> frame of process_state_estimate
    ctx,          \* get-context calls: call id -> frame of get_context
    \* ---- the last call observed ----
    req,          \* the last request (or function call) with its answer
    \* ---- state estimator ----
    estimator,    \* state-estimator runs: run id -> frame of state_estimator
    topic,        \* messages accepted by the state_estimates Pub/Sub topic
    \* ---- conversational agent ----
    agent         \* module-level user ids and the requests being handled

ingestVars == <<gcp, lock, rawRows, published, call>>
intervVars == <<now, estimates, instances, interactions, sel, ctx>>
estimatorVars == <<estimator, topic>>
vars == <<gcp, lock, rawRows, published, call,
          now, estimates, instances, interactions, sel, ctx, req, estimator, topic,
          agent>>

\* The conversational agent's module before any request: _current_user_id
\* of the middleware and the _user_id attribute of the tool are not set.
NoAgent == [current_user_id |-> "", tool_user_id |-> "", run |-> <<>>]

----------------------------------------------------------------------------
(* Bounds of the model.                                                    *)

MaxCalls == 2          \* submit-batch calls in one behaviour
MaxSelRuns == 1        \* state-estimates messages processed, SpecInterv
MaxBurstRuns == 4      \* state-estimates messages processed, SpecBurst
MaxCtxRuns == 2        \* get-context calls in one behaviour
MaxInteractions == 1   \* submit-interaction calls in one behaviour
MaxEstimates == 1      \* state-estimate rows written in one behaviour
TickMinutes == 20      \* minutes between two readings of the clock
MaxTime == 20          \* last reading of the clock

Users == {"U1", "U2"}
FetchedAts == {1, 2}

\* The batches a client submits: two batches of U1 with the same fetchedAt
\* (a retry with another sample count and without a trace id), one of U1
\* with another fetchedAt and an empty trace id, one of U2.
Batches ==
    { [user_id |-> "U1", fetched_at |-> 1, trace_id |-> <<"client", 1>>, total_samples |-> 1],
      [user_id |-> "U1", fetched_at |-> 1, trace_id |-> <<"none", 0>>,   total_samples |-> 2],
      [user_id |-> "U1", fetched_at |-> 2, trace_id |-> <<"empty", 0>>,  total_samples |-> 1],
      [user_id |-> "U2", fetched_at |-> 1, trace_id |-> <<"client", 1>>, total_samples |-> 1] }

----------------------------------------------------------------------------
(* Trace identifiers.  A trace id is a pair <<kind, n>>: the id a client   *)
(* sent, the empty string, None, or the result of a uuid4() call.  Every   *)
(* uuid4() call returns a value no other call returns: the pair names the  *)
(* call site and the request that made the call.                           *)

NoTrace == <<"none", 0>>
EmptyTrace == <<"empty", 0>>
ClientTraces == {<<"client", 1>>}

Uuid4(site, n) == <<site, n>>

\* Python truthiness of an Optional[str]: None and "" are falsy.
Truthy(t) == t # NoTrace /\ t # EmptyTrace

----------------------------------------------------------------------------
(* Ingestion gateway: process_watch_events.                                *)

NoLock == [exists |-> FALSE, user_id |-> "", total_samples |-> 0]

DedupKey(user_id, fetched_at) == <<user_id, fetched_at>>

DedupKeys == Users \X FetchedAts

\* The lock document written by doc_ref.set(...).
LockDoc(user_id, total_samples) ==
    [exists |-> TRUE, user_id |-> user_id, total_samples |-> total_samples]

\* A mutant of IngestTraceId: the batch's trace id is used as it came.
IngestTraceIdNoMint(batch_trace, c) == batch_trace

\* trace_id = batch.trace_id; if not trace_id: trace_id = str(uuid4())
IngestTraceId(batch_trace, c) ==
    IF Truthy(batch_trace) THEN batch_trace ELSE Uuid4("uuid_batch", c)

IdleCall ==
    [pc |-> "idle", user_id |-> "", fetched_at |-> 0, batch_trace |-> NoTrace,
     total_samples |-> 0, trace_id |-> NoTrace, status |-> "none",
     samples_received |-> 0, http |-> 0]

CallIds == 1..MaxCalls

\* The row rows_to_insert holds, and the trigger message trigger_data holds.
\* call_id names the request that wrote it: the table holds one row per
\* insert, also when two rows agree on every column.
RawRow(c) ==
    [user_id |-> call[c].user_id, fetched_at |-> call[c].fetched_at,
     trace_id |-> call[c].trace_id, call_id |-> c]

TriggerData(c) ==
    [user_id |-> call[c].user_id, fetched_at |-> call[c].fetched_at,
     trace_id |-> call[c].trace_id, total_samples |-> call[c].total_samples,
     call_id |-> c]

\* What the handler watch_events answers once process_watch_events returned
\* `status` with `samples`: 200 with samples_received, or 500 when it
\* raised.  The frame of the call is gone; the answer is what remains.
Finish(c, status, samples) ==
    [IdleCall EXCEPT !.pc = "done", !.status = status,
                     !.samples_received = samples,
                     !.http = IF status = "error" THEN 500 ELSE 200]

\* POST /watch_events arrives: total_samples and trace_id are computed.
\* Calls take their ids in the order they arrive.
SubmitBatch(c) ==
    /\ call[c].pc = "idle"
    /\ \A d \in CallIds : d < c => call[d].pc # "idle"
    /\ \E b \in Batches :
          call' = [call EXCEPT ![c] =
                     [IdleCall EXCEPT !.pc = IF gcp THEN "dedup_get" ELSE "return",
                                      !.user_id = b.user_id,
                                      !.fetched_at = b.fetched_at,
                                      !.batch_trace = b.trace_id,
                                      !.total_samples = b.total_samples,
                                      !.trace_id = IngestTraceId(b.trace_id, c)]]
    /\ UNCHANGED <<gcp, lock, rawRows, published>>

\* doc = doc_ref.get(): the document exists (duplicate), does not exist, or
\* the read raises and the except branch proceeds to the BigQuery write.
DedupGet(c) ==
    /\ call[c].pc = "dedup_get"
    /\ LET key == DedupKey(call[c].user_id, call[c].fetched_at) IN
       \/ /\ lock[key].exists
          /\ call' = [call EXCEPT ![c] =
                        Finish(c, "duplicate", call[c].total_samples)]
       \/ /\ ~lock[key].exists
          /\ call' = [call EXCEPT ![c].pc = "dedup_set"]
       \/ call' = [call EXCEPT ![c].pc = "bq_insert"]
    /\ UNCHANGED <<gcp, lock, rawRows, published>>

\* doc_ref.set({...}): the lock document is written (over whatever is
\* there), or the write raises and the except branch proceeds.
DedupSet(c) ==
    /\ call[c].pc = "dedup_set"
    /\ LET key == DedupKey(call[c].user_id, call[c].fetched_at) IN
       \/ /\ lock' = [lock EXCEPT ![key] =
                        LockDoc(call[c].user_id, call[c].total_samples)]
          /\ call' = [call EXCEPT ![c].pc = "bq_insert"]
       \/ /\ call' = [call EXCEPT ![c].pc = "bq_insert"]
          /\ UNCHANGED lock
    /\ UNCHANGED <<gcp, rawRows, published>>

\* errors = bq_client.insert_rows_json(...): the row is stored; or the call
\* returns row errors, which are printed; or it raises, and the handler
\* answers 500.
BqInsert(c) ==
    /\ call[c].pc = "bq_insert"
    /\ \/ /\ rawRows' = rawRows \cup {RawRow(c)}
          /\ call' = [call EXCEPT ![c].pc = "publish"]
       \/ /\ call' = [call EXCEPT ![c].pc = "publish"]
          /\ UNCHANGED rawRows
       \/ /\ call' = [call EXCEPT ![c] = Finish(c, "error", 0)]
          /\ UNCHANGED rawRows
    /\ UNCHANGED <<gcp, lock, published>>

\* publisher.publish(...).result(): the message is accepted, or the call
\* raises and the exception is printed.  Either way "success" is returned.
Publish(c) ==
    /\ call[c].pc = "publish"
    /\ \/ published' = published \cup {TriggerData(c)}
       \/ UNCHANGED published
    /\ call' = [call EXCEPT ![c] = Finish(c, "success", call[c].total_samples)]
    /\ UNCHANGED <<gcp, lock, rawRows>>

\* Without GCP clients (db, bq_client and publisher are None) every stage
\* is skipped and "success" is returned.
ReturnOffline(c) ==
    /\ call[c].pc = "return"
    /\ call' = [call EXCEPT ![c] = Finish(c, "success", call[c].total_samples)]
    /\ UNCHANGED <<gcp, lock, rawRows, published>>

----------------------------------------------------------------------------
(* The warehouse tables read by the selector and by get-context.           *)

\* NULL in a TIMESTAMP column and in the stress column.
NoTime == 0 - 1

\* No request was observed yet.  A request is observed with its operation
\* and argument; done and result are set when it was answered.
NoRequest == [op |-> "none", arg |-> <<>>, done |-> FALSE, result |-> <<>>]
NoStress == 0 - 1
NoId == <<"none", 0>>

\* Bucketing thresholds, in 1/10000 of the stress scale [0, 1].
STRESS_HIGH_THRESHOLD == 7000
STRESS_MEDIUM_THRESHOLD == 3000

\* The state-estimate rows the transform script writes: a high-stress row
\* of U1 with the batch's trace id, a low-stress row of U1 without a trace
\* id, a row of U2 without a stress score.
EstimateInputs ==
    { [user_id |-> "U1", trace_id |-> <<"client", 1>>, stress |-> 8500],
      [user_id |-> "U1", trace_id |-> <<"none", 0>>,   stress |-> 2000],
      [user_id |-> "U2", trace_id |-> <<"client", 1>>, stress |-> NoStress] }

\* shift_data.intervention_catalog, as the operators filled it: two rows
\* for high stress and the onboarding card, which this catalog offers for
\* low stress.  Keys in the order ORDER BY intervention_key returns them.
CatalogKeys == <<"K_card", "K_high", "getting_started_v1">>

Catalog ==
    [k \in {CatalogKeys[n] : n \in 1..Len(CatalogKeys)} |->
        CASE k = "K_card" ->
               [intervention_key |-> k, metric |-> "stress", level |-> "high",
                surface |-> "chat_card", enabled |-> TRUE]
          [] k = "K_high" ->
               [intervention_key |-> k, metric |-> "stress", level |-> "high",
                surface |-> "notification", enabled |-> TRUE]
          [] k = "getting_started_v1" ->
               [intervention_key |-> k, metric |-> "stress", level |-> "low",
                surface |-> "chat_card", enabled |-> TRUE]]

NoIntervention ==
    [intervention_key |-> "", metric |-> "", level |-> "", surface |-> "",
     enabled |-> FALSE]

\* The intervention keys of the model in the order of Python's str
\* comparison (and of ORDER BY intervention_key): code point by code point,
\* upper case before lower case.
SortedKeys == <<"K_card", "K_high", "K_off", "K_zen", "getting_started_v1">>

KeyRank(k) == CHOOSE n \in 1..Len(SortedKeys) : SortedKeys[n] = k

\* The view shift_data.surface_preferences, rates and scores in 1/100.
\* A surface without a row reads as the defaults of surface_pref.get(...).
DefaultPref == [preference_score |-> 0, annoyance_rate |-> 0, shown_count |-> 0]

SurfacePreferences(user_id) ==
    [sf \in {"chat_card", "notification"} |->
        IF user_id = "U1" /\ sf = "chat_card"
        THEN [preference_score |-> -50, annoyance_rate |-> 100, shown_count |-> 4]
        ELSE IF user_id = "U2" /\ sf = "notification"
        THEN [preference_score |-> 20, annoyance_rate |-> 90, shown_count |-> 10]
        ELSE DefaultPref]

\* A mutant of BucketStress: the high threshold is inclusive.
BucketStressInclusive(stress) ==
    IF stress = NoStress THEN "none"
    ELSE IF stress >= STRESS_HIGH_THRESHOLD THEN "high"
    ELSE IF stress >= STRESS_MEDIUM_THRESHOLD THEN "medium"
    ELSE "low"

\* bucket_stress
BucketStress(stress) ==
    IF stress = NoStress THEN "none"
    ELSE IF stress > STRESS_HIGH_THRESHOLD THEN "high"
    ELSE IF stress >= STRESS_MEDIUM_THRESHOLD THEN "medium"
    ELSE "low"

\* get_catalog_interventions: the rows of a table (a sequence of rows)
\* WHERE enabled = TRUE AND metric = @metric AND level = @level, in the
\* order of the table.
GetCatalogInterventions(table, metric, level) ==
    LET Where(row) == row.enabled /\ row.metric = metric /\ row.level = level
    IN  SelectSeq(table, Where)

Min(a, b) == IF a < b THEN a ELSE b

\* A mutant of Suppressed: a surface is suppressed from the sixth showing.
SuppressedFromSixth(pref) ==
    pref.shown_count > 5 /\ Min(pref.annoyance_rate, 90) > 70

\* The suppression rule of select_intervention.
Suppressed(pref) ==
    pref.shown_count >= 5 /\ Min(pref.annoyance_rate, 90) > 70

FinalScore(pref) == 100 + pref.preference_score

\* What surface_prefs.get(surface, {}) gives for every surface when
\* get_surface_preferences returned {} (no rows, or the query failed).
NoPreferences == [sf \in {"chat_card", "notification"} |-> DefaultPref]

\* The rows of a set as ORDER BY intervention_key returns them.
SortedByKey(rows) ==
    CHOOSE sq \in [1..Cardinality(rows) -> rows] :
        \A i \in 1..Cardinality(rows), j \in 1..Cardinality(rows) :
            i < j => KeyRank(sq[i].intervention_key) < KeyRank(sq[j].intervention_key)

\* A mutant of SelectFromCandidates: the sort key is -final_score alone, so
\* of the candidates with the best score the first the catalog returned wins.
SelectFromCandidatesScoreOnly(candidates, prefs) ==
    LET scored == {i \in 1..Len(candidates) :
                      ~Suppressed(prefs[candidates[i].surface])}
        Score(i) == FinalScore(prefs[candidates[i].surface])
        First(i) == \A j \in scored :
                       Score(i) > Score(j) \/ (Score(i) = Score(j) /\ i <= j)
    IN  IF scored = {} THEN NoIntervention
        ELSE candidates[CHOOSE i \in scored : First(i)]

\* The scoring loop and the sort of select_intervention: of the candidates
\* (in the order the catalog query returned them) whose surface is not
\* suppressed, element 0 after the stable sort by
\* (-final_score, intervention_key); None when none is left.
SelectFromCandidates(candidates, prefs) ==
    LET scored == {i \in 1..Len(candidates) :
                      ~Suppressed(prefs[candidates[i].surface])}
        Score(i) == FinalScore(prefs[candidates[i].surface])
        Rank(i) == KeyRank(candidates[i].intervention_key)
        KeyLess(i, j) == Score(i) > Score(j)
                             \/ (Score(i) = Score(j) /\ Rank(i) < Rank(j))
        KeyEqual(i, j) == Score(i) = Score(j) /\ Rank(i) = Rank(j)
        First(i) == \A j \in scored :
                       KeyLess(i, j) \/ (KeyEqual(i, j) /\ i <= j)
    IN  IF scored = {} THEN NoIntervention
        ELSE candidates[CHOOSE i \in scored : First(i)]

\* select_intervention over a catalog table: None without a stress score
\* and without candidates; otherwise the choice among the rows the catalog
\* query returned for metric stress and the bucketed level.
SelectInterventionIn(stress, table, prefs) ==
    IF stress = NoStress THEN NoIntervention
    ELSE SelectFromCandidates(
             GetCatalogInterventions(table, "stress", BucketStress(stress)),
             prefs)

\* select_intervention with the warehouse's client: the catalog table comes
\* ORDER BY intervention_key, and a catalog query that failed (catalog_ok
\* is FALSE) reads as no rows.
SelectIntervention(stress, prefs, catalog_ok) ==
    SelectInterventionIn(stress,
        IF catalog_ok THEN SortedByKey({Catalog[k] : k \in DOMAIN Catalog})
        ELSE <<>>,
        prefs)

\* SELECT ... FROM state_estimates WHERE user_id ORDER BY timestamp DESC LIMIT 1
LatestEstimates(user_id) ==
    {e \in estimates :
        /\ e.user_id = user_id
        /\ \A f \in estimates : f.user_id = user_id => f.timestamp <= e.timestamp}

\* A mutant of HasCompletedFlowQuery: the row that arrived last is taken,
\* whatever its timestamp.
HasCompletedFlowByArrival(rows, user_id, flow_id, flow_version) ==
    LET mine == {r \in rows :
                    /\ r.user_id = user_id
                    /\ r.event_type \in {"flow_completed", "flow_reset"}
                    /\ (r.flow_id = flow_id \/ r.scope \in {"all", "flows"})}
        latest == {r \in mine : \A q \in mine : q.n <= r.n}
    IN  IF mine = {} THEN {FALSE}
        ELSE {r.event_type = "flow_completed"
                /\ (r.flow_version = flow_version
                      \/ (r.flow_version = "" /\ flow_version = "v1")) :
              r \in latest}

\* The query of has_completed_flow over the rows of app_interactions and
\* the test of its first row: the answers it can give (the first row is
\* any of the latest when several have the latest timestamp).
HasCompletedFlowQuery(rows, user_id, flow_id, flow_version) ==
    LET mine == {r \in rows :
                    /\ r.user_id = user_id
                    /\ r.event_type \in {"flow_completed", "flow_reset"}
                    /\ (r.flow_id = flow_id \/ r.scope \in {"all", "flows"})}
        latest == {r \in mine : \A q \in mine : q.timestamp <= r.timestamp}
    IN  IF mine = {} THEN {FALSE}
        ELSE {r.event_type = "flow_completed"
                /\ (r.flow_version = flow_version
                      \/ (r.flow_version = "" /\ flow_version = "v1")) :
              r \in latest}

\* The outcomes has_completed_flow can have: the latest (by timestamp)
\* flow_completed / flow_reset row of the user that names the flow or has
\* scope all or flows decides; rows of equal timestamp come in either order.
HasCompletedFlow(user_id, flow_id, flow_version) ==
    HasCompletedFlowQuery(interactions, user_id, flow_id, flow_version)

\* COUNT(*) of flow_requested rows of the last 5 minutes, > 0.
FlowRequested(user_id) ==
    \E r \in interactions :
        /\ r.user_id = user_id
        /\ r.event_type = "flow_requested"
        /\ r.flow_id = "getting_started"
        /\ r.timestamp >= now - 5

\* The instances of the user with this key and status 'created'.
ExistingCreated(user_id, key) ==
    {i \in DOMAIN instances :
        /\ instances[i].user_id = user_id
        /\ instances[i].intervention_key = key
        /\ instances[i].status = "created"}

\* intervention["intervention_key"].startswith("getting_started_")
StartsWithGettingStarted(key) == key \in {"getting_started_v1"}

\* version = parts[-1] of the key split at "_" (three parts or more).
VersionOfKey(key) ==
    CASE key = "getting_started_v1" -> "v1"
      [] OTHER -> "v1"

\* The row create_intervention_instance inserts.
InstanceRow(user_id, iv, trace_id) ==
    [user_id |-> user_id, trace_id |-> trace_id,
     metric |-> iv.metric, level |-> iv.level, surface |-> iv.surface,
     intervention_key |-> iv.intervention_key,
     created_at |-> now, scheduled_at |-> now, sent_at |-> NoTime,
     status |-> "created"]

\* UPDATE ... SET status = 'sent', sent_at = @sent_at WHERE id = @id
MarkSent(row, t) == [row EXCEPT !.status = "sent", !.sent_at = t]

\* A mutant of StatusForEvent: every status change is to accepted.
StatusForEventAccepted(event_type) == "accepted"

\* new_status = "accepted" if event_type == "tapped" else "dismissed"
StatusForEvent(event_type) ==
    IF event_type = "tapped" THEN "accepted" ELSE "dismissed"

\* UPDATE ... SET status = @new_status WHERE intervention_instance_id = @id
SetStatus(table, id, status) ==
    [i \in DOMAIN table |->
        IF i = id THEN [table[i] EXCEPT !.status = status] ELSE table[i]]

----------------------------------------------------------------------------
(* The clock, and the transform script of the state estimator, which       *)
(* writes the state-estimate rows the selector reads.                      *)

Tick ==
    /\ now + TickMinutes <= MaxTime
    /\ now' = now + TickMinutes
    /\ UNCHANGED <<estimates, instances, interactions, sel, ctx>>

\* One row per run of the transform; a later row has a later timestamp.
TransformWrites ==
    /\ Cardinality(estimates) < MaxEstimates
    /\ \E e \in EstimateInputs :
          estimates' = estimates \cup
              {[user_id |-> e.user_id, trace_id |-> e.trace_id,
                stress |-> e.stress, timestamp |-> Cardinality(estimates) + 1]}
    /\ UNCHANGED <<now, instances, interactions, sel, ctx>>

----------------------------------------------------------------------------
(* Intervention selector: process_state_estimate.                          *)

SelIds == 1..MaxSelRuns

IdleSel ==
    [pc |-> "idle", user_id |-> "", intervention |-> NoIntervention,
     est_trace |-> NoTrace, instance_id |-> NoId, outcome |-> "none"]

\* The run is over: "raised" when the handler re-raised (the message is
\* redelivered), any other outcome when it returned (the message is acked).
SelDone(outcome) == [IdleSel EXCEPT !.pc = "done", !.outcome = outcome]

\* A mutant of SelectorTraceId: the state estimate's trace id as it is.
SelectorTraceIdNoMint(est_trace, p) == est_trace

\* trace_id = state_estimate.get("trace_id"); if not trace_id: uuid4()
SelectorTraceId(est_trace, p) ==
    IF Truthy(est_trace) THEN est_trace ELSE Uuid4("uuid_sel", p)

\* A mutant of ProcessStateEstimate: the run reads the state estimate the
\* message names, not the latest of the user.
ProcessStateEstimateAsNamed(p, user_id, timestamp) ==
    \/ sel' = [sel EXCEPT ![p] = SelDone("raised")]
    \/ /\ {e \in estimates : e.user_id = user_id /\ e.timestamp = timestamp} = {}
       /\ sel' = [sel EXCEPT ![p] = SelDone("no_state")]
    \/ \E e \in {f \in estimates :
                    f.user_id = user_id /\ f.timestamp = timestamp},
          prefs \in {SurfacePreferences(user_id), NoPreferences},
          catalog_ok \in BOOLEAN :
          LET iv == SelectIntervention(e.stress, prefs, catalog_ok) IN
          IF iv = NoIntervention
          THEN sel' = [sel EXCEPT ![p] = SelDone("none_selected")]
          ELSE sel' = [sel EXCEPT ![p] =
                  [IdleSel EXCEPT
                     !.pc = IF StartsWithGettingStarted(iv.intervention_key)
                            THEN "gate" ELSE "create",
                     !.user_id = user_id, !.intervention = iv,
                     !.est_trace = e.trace_id]]

\* process_state_estimate(user_id, timestamp) up to the selection: the
\* latest state estimate of the user is loaded (the query can raise) and
\* select_intervention runs, with the user's surface preferences or, when
\* that query failed, with none.  The timestamp of the message is compared
\* with the row's and a difference is logged; nothing else reads it.
ProcessStateEstimate(p, user_id, timestamp) ==
    \/ sel' = [sel EXCEPT ![p] = SelDone("raised")]
    \/ /\ LatestEstimates(user_id) = {}
       /\ sel' = [sel EXCEPT ![p] = SelDone("no_state")]
    \/ \E e \in LatestEstimates(user_id),
          prefs \in {SurfacePreferences(user_id), NoPreferences},
          catalog_ok \in BOOLEAN :
          LET iv == SelectIntervention(e.stress, prefs, catalog_ok) IN
          IF iv = NoIntervention
          THEN sel' = [sel EXCEPT ![p] = SelDone("none_selected")]
          ELSE sel' = [sel EXCEPT ![p] =
                  [IdleSel EXCEPT
                     !.pc = IF StartsWithGettingStarted(iv.intervention_key)
                            THEN "gate" ELSE "create",
                     !.user_id = user_id, !.intervention = iv,
                     !.est_trace = e.trace_id]]

\* A state-estimates message with the user_id and the timestamp of some
\* state estimate is delivered.  Runs take their ids in the order their
\* messages arrive.
SelSelect(p) ==
    /\ sel[p].pc = "idle"
    /\ \A d \in DOMAIN sel : d < p => sel[d].pc # "idle"
    /\ \E u \in Users, t \in 1..MaxEstimates : ProcessStateEstimate(p, u, t)
    /\ UNCHANGED <<now, estimates, instances, interactions, ctx>>

\* The onboarding gate: has_completed_flow, then
\* get_existing_getting_started_instance; either query answers False / None
\* when it fails.
SelGate(p) ==
    /\ sel[p].pc = "gate"
    /\ LET key == sel[p].intervention.intervention_key
           u == sel[p].user_id
       IN \E completed \in HasCompletedFlow(u, "getting_started", VersionOfKey(key))
                              \cup {FALSE},
             found \in {ExistingCreated(u, key) # {}, FALSE} :
             IF ~completed /\ found
             THEN sel' = [sel EXCEPT ![p] = SelDone("skipped")]
             ELSE sel' = [sel EXCEPT ![p].pc = "create"]
    /\ UNCHANGED <<now, estimates, instances, interactions, ctx>>

\* A mutant of SelCreate: an insert that failed is logged and the delivery
\* step runs with the id of the row that was not inserted.
SelCreateGoesOn(p) ==
    /\ sel[p].pc = "create"
    /\ \/ /\ instances' = instances @@
                (<<"sel", p>> :>
                    InstanceRow(sel[p].user_id, sel[p].intervention,
                                SelectorTraceId(sel[p].est_trace, p)))
          /\ sel' = [sel EXCEPT ![p].pc = "push", ![p].instance_id = <<"sel", p>>]
       \/ /\ sel' = [sel EXCEPT ![p] =
                        [SelDone("push_failed") EXCEPT
                            !.intervention = sel[p].intervention]]
          /\ UNCHANGED instances
    /\ UNCHANGED <<now, estimates, interactions, ctx>>

\* create_intervention_instance: the row is inserted, or the insert fails
\* and the handler raises.  The frame of a run that raised here keeps the
\* intervention it had selected.
SelCreate(p) ==
    /\ sel[p].pc = "create"
    /\ \/ /\ instances' = instances @@
                (<<"sel", p>> :>
                    InstanceRow(sel[p].user_id, sel[p].intervention,
                                SelectorTraceId(sel[p].est_trace, p)))
          /\ sel' = [sel EXCEPT ![p].pc = "push", ![p].instance_id = <<"sel", p>>]
       \/ /\ sel' = [sel EXCEPT ![p] =
                        [SelDone("raised") EXCEPT
                            !.intervention = sel[p].intervention]]
          /\ UNCHANGED instances
    /\ UNCHANGED <<now, estimates, interactions, ctx>>

\* No row in the devices table and no FALLBACK_DEVICE_TOKEN.
NoToken == ""

\* What get_device_token or, without a row, FALLBACK_DEVICE_TOKEN can give.
DeviceTokens == {NoToken, "device-token"}

\* A mutant of AfterPush: a push that failed marks the instance failed.
AfterPushMarksFailed(row, device_token, success, t) ==
    IF device_token = NoToken THEN row
    ELSE IF success THEN MarkSent(row, t)
    ELSE [row EXCEPT !.status = "failed"]

\* The instance row after the delivery step: with a device token and a
\* push that succeeded, status sent and sent_at the current time; without
\* a token, or after a push that failed, the row as it was.
AfterPush(row, device_token, success, t) ==
    IF device_token = NoToken THEN row
    ELSE IF success THEN MarkSent(row, t)
    ELSE row

\* The branch of the delivery step that was taken.
PushOutcome(device_token, success) ==
    IF device_token = NoToken THEN "no_token"
    ELSE IF success THEN "sent" ELSE "push_failed"

\* get_device_token (or the fallback token) and send_push_notification,
\* which answers True or False and never raises, then
\* update_intervention_instance_status(id, "sent", now) after a push that
\* succeeded.  No token or a failed push leave the instance as it is; the
\* token query and the UPDATE can raise.  The token query and the push read
\* and write nothing of the tables modelled here, so they are one step with
\* the UPDATE that follows them.
SelPush(p) ==
    /\ sel[p].pc = "push"
    /\ \/ \E device_token \in DeviceTokens, success \in BOOLEAN :
             /\ instances' = [instances EXCEPT ![sel[p].instance_id] =
                                 AfterPush(instances[sel[p].instance_id],
                                           device_token, success, now)]
             /\ sel' = [sel EXCEPT ![p] =
                           SelDone(PushOutcome(device_token, success))]
       \/ /\ sel' = [sel EXCEPT ![p] = SelDone("raised")]
          /\ UNCHANGED instances
    /\ UNCHANGED <<now, estimates, interactions, ctx>>

----------------------------------------------------------------------------
(* Gateway: get_context (GET /context).                                    *)

CtxIds == 1..MaxCtxRuns

IdleCtx ==
    [pc |-> "idle", user_id |-> "", completed |-> FALSE, http |-> 0,
     interventions |-> {}, synthetic |-> FALSE, saved |-> {}]

\* The onboarding check: has_completed_flow (a failure is a 500), the
\* flow_requested count (False when the query fails), the count of
\* getting_started_v1 instances with status 'created' (no create when the
\* query fails) and the catalog row of getting_started_v1 (no create when
\* it cannot be had).  Calls take their ids in the order they arrive.
CtxCheck(q) ==
    /\ ctx[q].pc = "idle"
    /\ \A d \in DOMAIN ctx : d < q => ctx[d].pc # "idle"
    /\ \E u \in Users :
          \/ ctx' = [ctx EXCEPT ![q] =
                       [IdleCtx EXCEPT !.pc = "done", !.http = 500]]
          \/ \E completed \in HasCompletedFlow(u, "getting_started", "v1"),
                requested \in {FlowRequested(u), FALSE},
                create \in {ExistingCreated(u, "getting_started_v1") = {}
                              /\ "getting_started_v1" \in DOMAIN Catalog,
                            FALSE} :
                ctx' = [ctx EXCEPT ![q] =
                          [IdleCtx EXCEPT
                             !.pc = IF (~completed \/ requested) /\ create
                                    THEN "create" ELSE "read",
                             !.user_id = u, !.completed = completed]]
    /\ UNCHANGED <<now, estimates, instances, interactions, sel>>

\* selector_bq.create_intervention_instance(..., trace_id=str(uuid4())): a
\* failure is printed and the handler goes on.
CtxCreate(q) ==
    /\ ctx[q].pc = "create"
    /\ \/ instances' = instances @@
              (<<"ctx", q>> :>
                  InstanceRow(ctx[q].user_id, Catalog["getting_started_v1"],
                              Uuid4("uuid_ctx", q)))
       \/ UNCHANGED instances
    /\ ctx' = [ctx EXCEPT ![q].pc = "read"]
    /\ UNCHANGED <<now, estimates, interactions, sel>>

\* A mutant of GetSavedInterventions: cte_reset is not joined, a key
\* saved before a reset stays saved.
GetSavedInterventionsNoReset(rows, user_id) ==
    LET events == {r \in rows :
                      /\ r.user_id = user_id
                      /\ r.event_type \in {"intervention_saved",
                                            "intervention_unsaved"}
                      /\ r.intervention_key # ""}
        keys == {r.intervention_key : r \in events}
        first == [k \in keys |->
                    {r \in events :
                        /\ r.intervention_key = k
                        /\ \A o \in events : o.intervention_key = k
                              => o.timestamp <= r.timestamp}]
    IN  {{k \in keys : rn[k].event_type = "intervention_saved"}
         : rn \in {f \in [keys -> events] : \A k \in keys : f[k] \in first[k]}}

\* The query of get_saved_interventions over the rows of app_interactions.
GetSavedInterventions(rows, user_id) ==
    LET resets == {r \in rows :
                      /\ r.user_id = user_id
                      /\ r.event_type = "flow_reset"
                      /\ r.scope \in {"all", "saved"}}
        events == {r \in rows :
                      /\ r.user_id = user_id
                      /\ r.event_type \in {"intervention_saved",
                                            "intervention_unsaved"}
                      /\ r.intervention_key # ""}
        keys == {r.intervention_key : r \in events}
        first == [k \in keys |->
                    {r \in events :
                        /\ r.intervention_key = k
                        /\ \A o \in events : o.intervention_key = k
                              => o.timestamp <= r.timestamp}]
    IN  {{k \in keys :
            /\ rn[k].event_type = "intervention_saved"
            /\ \A r \in resets : rn[k].timestamp > r.timestamp}
         : rn \in {f \in [keys -> events] : \A k \in keys : f[k] \in first[k]}}

\* A mutant of SavedInterventions: a key saved at the time of the reset
\* is kept.
SavedInterventionsInclusive(user_id) ==
    LET resets == {r \in interactions :
                      /\ r.user_id = user_id
                      /\ r.event_type = "flow_reset"
                      /\ r.scope \in {"all", "saved"}}
        events == {r \in interactions :
                      /\ r.user_id = user_id
                      /\ r.event_type \in {"intervention_saved",
                                            "intervention_unsaved"}
                      /\ r.intervention_key # ""}
        keys == {r.intervention_key : r \in events}
        first == [k \in keys |->
                    {r \in events :
                        /\ r.intervention_key = k
                        /\ \A o \in events : o.intervention_key = k
                              => o.timestamp <= r.timestamp}]
    IN  {{k \in keys :
            /\ rn[k].event_type = "intervention_saved"
            /\ \A r \in resets : rn[k].timestamp >= r.timestamp}
         : rn \in {f \in [keys -> events] : \A k \in keys : f[k] \in first[k]}}

\* get_saved_interventions, the results the query can give: per key of
\* the user's intervention_saved / intervention_unsaved rows the row that
\* ROW_NUMBER() ... ORDER BY timestamp DESC numbers 1 (any of the latest
\* when several have the latest timestamp); the key is returned when that
\* row is intervention_saved and later than MAX(timestamp) of the user's
\* flow_reset rows of scope all or saved, or there is no such row.
SavedInterventions(user_id) == GetSavedInterventions(interactions, user_id)

\* A mutant of GetCreatedInterventionsForUser: the rows of the user with
\* any status.
GetCreatedInterventionsAnyStatus(user_id) ==
    {i \in DOMAIN instances : instances[i].user_id = user_id}

\* get_created_interventions_for_user: WHERE user_id = @user_id AND
\* status = 'created'.
GetCreatedInterventionsForUser(user_id) ==
    {i \in DOMAIN instances :
        /\ instances[i].user_id = user_id
        /\ instances[i].status = "created"}

\* The payload: the instances of the user with status 'created' whose key
\* the catalog has, and, when the flow was not completed at the check, the
\* built-in getting_started card in front of them; and the saved keys.  A
\* failing query is a 500.
CtxRead(q) ==
    /\ ctx[q].pc = "read"
    /\ \/ ctx' = [ctx EXCEPT ![q] =
                    [IdleCtx EXCEPT !.pc = "done", !.http = 500]]
       \/ \E saved \in SavedInterventions(ctx[q].user_id) :
          ctx' = [ctx EXCEPT ![q] =
                    [IdleCtx EXCEPT
                       !.pc = "done", !.http = 200, !.saved = saved,
                       !.user_id = ctx[q].user_id,
                       !.interventions =
                           {i \in GetCreatedInterventionsForUser(ctx[q].user_id) :
                               instances[i].intervention_key \in DOMAIN Catalog},
                       !.synthetic = ~ctx[q].completed]]
    /\ UNCHANGED <<now, estimates, instances, interactions, sel>>

----------------------------------------------------------------------------
(* Gateway: app_interactions (POST /app_interactions).                     *)

EventTypes == {"shown", "tapped", "dismissed", "flow_completed", "flow_requested"}

\* interaction.timestamp is the client's reading of the clock.
ClientTimes == {t \in 0..MaxTime : t % TickMinutes = 0}

\* The row of shift_data.app_interactions; n stands for interaction_id.
InteractionRow(user_id, event_type, instance_id, timestamp, n) ==
    [user_id |-> user_id, event_type |-> event_type,
     instance_id |-> instance_id, timestamp |-> timestamp,
     flow_id |-> IF event_type \in {"flow_completed", "flow_requested"}
                 THEN "getting_started" ELSE "",
     flow_version |-> IF event_type = "flow_completed" THEN "v1" ELSE "",
     scope |-> "", intervention_key |-> "", trace_id |-> <<"client", 1>>,
     n |-> n]

\* An AppInteractionRequest of the app; intervention_key is the key its
\* payload names ("" when the payload names none).
InteractionRequest(user_id, event_type, instance_id, timestamp) ==
    [trace_id |-> <<"client", 1>>, user_id |-> user_id,
     intervention_instance_id |-> instance_id, event_type |-> event_type,
     timestamp |-> timestamp, intervention_key |-> ""]

\* A mutant of AppInteractions: a status UPDATE that fails is a 500.
AppInteractionsUpdateRaises(current_user, it, insert_ok, update_ok) ==
    LET row == [InteractionRow(it.user_id, it.event_type,
                               it.intervention_instance_id, it.timestamp,
                               Cardinality(interactions) + 1)
                  EXCEPT !.trace_id = it.trace_id,
                         !.intervention_key = it.intervention_key]
        same == [http |-> 0, update |-> "none",
                 interactions |-> interactions, instances |-> instances]
    IN  IF it.user_id # current_user THEN [same EXCEPT !.http = 403]
        ELSE IF ~insert_ok THEN [same EXCEPT !.http = 500]
        ELSE IF it.event_type \notin {"tapped", "dismissed"}
        THEN [same EXCEPT !.http = 200,
                          !.interactions = interactions \cup {row}]
        ELSE IF ~update_ok
        THEN [same EXCEPT !.http = 500, !.update = "failed",
                          !.interactions = interactions \cup {row}]
        ELSE [same EXCEPT !.http = 200, !.update = "done",
                          !.interactions = interactions \cup {row},
                          !.instances = SetStatus(instances,
                                            it.intervention_instance_id,
                                            StatusForEvent(it.event_type))]

\* The body of app_interactions for the authenticated user current_user:
\* the answer and the two tables after it.  403 when the event is another
\* user's; the row is inserted (row errors are a 500 and nothing else
\* happens); for tapped / dismissed the status of the instance is updated,
\* and a failure of the UPDATE is printed and the request succeeds.
AppInteractions(current_user, it, insert_ok, update_ok) ==
    LET row == [InteractionRow(it.user_id, it.event_type,
                               it.intervention_instance_id, it.timestamp,
                               Cardinality(interactions) + 1)
                  EXCEPT !.trace_id = it.trace_id,
                         !.intervention_key = it.intervention_key]
        same == [http |-> 0, update |-> "none",
                 interactions |-> interactions, instances |-> instances]
    IN  IF it.user_id # current_user THEN [same EXCEPT !.http = 403]
        ELSE IF ~insert_ok THEN [same EXCEPT !.http = 500]
        ELSE IF it.event_type \notin {"tapped", "dismissed"}
        THEN [same EXCEPT !.http = 200,
                          !.interactions = interactions \cup {row}]
        ELSE IF ~update_ok
        THEN [same EXCEPT !.http = 200, !.update = "failed",
                          !.interactions = interactions \cup {row}]
        ELSE [same EXCEPT !.http = 200, !.update = "done",
                          !.interactions = interactions \cup {row},
                          !.instances = SetStatus(instances,
                                            it.intervention_instance_id,
                                            StatusForEvent(it.event_type))]

\* The authenticated user sends an event about an instance (or about none).
SubmitInteraction ==
    /\ Cardinality(interactions) < MaxInteractions
    /\ \E u \in Users, ev \in EventTypes, ts \in ClientTimes,
          id \in DOMAIN instances \cup {NoId}, insert_ok \in BOOLEAN :
          /\ (ev \in {"flow_completed", "flow_requested"}) => id = NoId
          /\ (ev \in {"shown", "tapped", "dismissed"}) => id # NoId
          /\ \E update_ok \in IF insert_ok /\ ev \in {"tapped", "dismissed"}
                                THEN BOOLEAN ELSE {TRUE} :
             LET answer == AppInteractions(u, InteractionRequest(u, ev, id, ts),
                                           insert_ok, update_ok)
             IN  /\ interactions' = answer.interactions
                 /\ instances' = answer.instances
    /\ UNCHANGED <<now, estimates, sel, ctx>>

----------------------------------------------------------------------------
(* Initial state of the tables and frames; specification of the ingestion  *)
(* gateway.                                                                *)

InitInterv ==
    /\ now = 0
    /\ estimates = {}
    /\ instances = <<>>
    /\ interactions = {}
    /\ sel = [p \in SelIds |-> IdleSel]
    /\ ctx = [q \in CtxIds |-> IdleCtx]
    /\ req = NoRequest
    /\ estimator = <<>>
    /\ topic = {}
    /\ agent = NoAgent

InitIngest ==
    /\ gcp \in BOOLEAN
    /\ lock = [k \in DedupKeys |-> NoLock]
    /\ rawRows = {}
    /\ published = {}
    /\ call = [c \in CallIds |-> IdleCall]
    /\ InitInterv

NextIngest ==
    /\ \E c \in CallIds :
          \/ SubmitBatch(c)
          \/ DedupGet(c)
          \/ DedupSet(c)
          \/ BqInsert(c)
          \/ Publish(c)
          \/ ReturnOffline(c)
    /\ UNCHANGED intervVars
    /\ UNCHANGED req
    /\ UNCHANGED estimatorVars
    /\ UNCHANGED agent

SpecIngest == InitIngest /\ [][NextIngest]_vars

----------------------------------------------------------------------------
(* Specification of the selector and of the gateway's get-context and      *)
(* submit-interaction.                                                     *)

InitIntervSpec ==
    /\ gcp = TRUE
    /\ lock = [k \in DedupKeys |-> NoLock]
    /\ rawRows = {}
    /\ published = {}
    /\ call = [c \in CallIds |-> IdleCall]
    /\ InitInterv

NextInterv ==
    /\ \/ Tick
       \/ TransformWrites
       \/ \E p \in SelIds :
             \/ SelSelect(p)
             \/ SelGate(p)
             \/ SelCreate(p)
             \/ SelPush(p)
       \/ \E q \in CtxIds :
             \/ CtxCheck(q)
             \/ CtxCreate(q)
             \/ CtxRead(q)
       \/ SubmitInteraction
    /\ UNCHANGED ingestVars
    /\ UNCHANGED req
    /\ UNCHANGED estimatorVars
    /\ UNCHANGED agent

SpecInterv == InitIntervSpec /\ [][NextInterv]_vars

----------------------------------------------------------------------------
(* Specification of a burst of state-estimates messages: the selector      *)
(* alone, no get-context call and no app interaction.                      *)

BurstIds == 1..MaxBurstRuns

InitBurst ==
    /\ gcp = TRUE
    /\ lock = [k \in DedupKeys |-> NoLock]
    /\ rawRows = {}
    /\ published = {}
    /\ call = [c \in CallIds |-> IdleCall]
    /\ now = 0
    /\ estimates = {}
    /\ instances = <<>>
    /\ interactions = {}
    /\ sel = [p \in BurstIds |-> IdleSel]
    /\ ctx = <<>>
    /\ req = NoRequest
    /\ estimator = <<>>
    /\ topic = {}
    /\ agent = NoAgent

NextBurst ==
    /\ \/ Tick
       \/ TransformWrites
       \/ \E p \in BurstIds :
             \/ SelSelect(p)
             \/ SelGate(p)
             \/ SelCreate(p)
             \/ SelPush(p)
    /\ UNCHANGED ingestVars
    /\ UNCHANGED req
    /\ UNCHANGED estimatorVars
    /\ UNCHANGED agent

SpecBurst == InitBurst /\ [][NextBurst]_vars

----------------------------------------------------------------------------
(* The selector with bucket_stress called on its own: one message to the   *)
(* selector, and calls of bucket_stress with scores around the thresholds. *)

\* Stress scores in 1/10000, and no score.
StressInputs == {NoStress, 0, 2999, 3000, 5000, 7000, 7001, 10000}

CallBucketStress ==
    /\ \E stress \in StressInputs :
          req' = [op |-> "bucket_stress", arg |-> stress, done |-> TRUE,
                  result |-> BucketStress(stress)]
    /\ UNCHANGED <<now, estimates, instances, interactions, sel, ctx>>

InitSelector ==
    /\ gcp = TRUE
    /\ lock = [k \in DedupKeys |-> NoLock]
    /\ rawRows = {}
    /\ published = {}
    /\ call = [c \in CallIds |-> IdleCall]
    /\ now = 0
    /\ estimates = {}
    /\ instances = <<>>
    /\ interactions = {}
    /\ sel = [p \in SelIds |-> IdleSel]
    /\ ctx = <<>>
    /\ req = NoRequest
    /\ estimator = <<>>
    /\ topic = {}
    /\ agent = NoAgent

NextSelector ==
    /\ \/ TransformWrites /\ UNCHANGED req
       \/ \E p \in SelIds :
             \/ SelSelect(p) /\ UNCHANGED req
             \/ SelGate(p) /\ UNCHANGED req
             \/ SelCreate(p) /\ UNCHANGED req
             \/ SelPush(p) /\ UNCHANGED req
       \/ CallBucketStress
    /\ UNCHANGED ingestVars
    /\ UNCHANGED estimatorVars
    /\ UNCHANGED agent

SpecSelector == InitSelector /\ [][NextSelector]_vars

----------------------------------------------------------------------------
(* select_intervention called on its own, with a client whose catalog      *)
(* query returns the rows of a small table in any order and whose          *)
(* preference query returns any of a few entries per surface.              *)

MaxCandidates == 3

\* Catalog rows: three for high stress on two surfaces, one that is
\* disabled and one for low stress.
TestRows ==
    {[intervention_key |-> "K_card", metric |-> "stress", level |-> "high",
      surface |-> "chat_card", enabled |-> TRUE],
     [intervention_key |-> "K_high", metric |-> "stress", level |-> "high",
      surface |-> "notification", enabled |-> TRUE],
     [intervention_key |-> "K_zen", metric |-> "stress", level |-> "high",
      surface |-> "notification", enabled |-> TRUE],
     [intervention_key |-> "K_off", metric |-> "stress", level |-> "high",
      surface |-> "chat_card", enabled |-> FALSE],
     [intervention_key |-> "getting_started_v1", metric |-> "stress",
      level |-> "low", surface |-> "chat_card", enabled |-> TRUE]}

\* Tables of up to MaxCandidates different rows, in every order.
TestTables ==
    UNION {{t \in [1..n -> TestRows] :
               \A i \in 1..n, j \in 1..n : i # j => t[i] # t[j]}
           : n \in 0..MaxCandidates}

\* Entries of the surface_preferences view, rates and scores in 1/100: the
\* defaults, a liked surface, annoyance 1.0 after four and after five
\* showings, and annoyance 0.7 after nine.
PrefInputs ==
    {DefaultPref,
     [preference_score |-> 50, annoyance_rate |-> 0, shown_count |-> 0],
     [preference_score |-> -50, annoyance_rate |-> 100, shown_count |-> 4],
     [preference_score |-> 20, annoyance_rate |-> 100, shown_count |-> 5],
     [preference_score |-> 0, annoyance_rate |-> 70, shown_count |-> 9]}

TestPrefs == [{"chat_card", "notification"} -> PrefInputs]

\* The calls: without a stress score, with a low and with a high one.
SelectCalls ==
    {[op |-> "select_intervention",
      arg |-> [stress |-> stress, table |-> table, prefs |-> prefs],
      done |-> FALSE, result |-> <<>>]
     : stress \in {NoStress, 2000, 8500}, table \in TestTables,
       prefs \in TestPrefs}

CallSelect ==
    /\ req.op = "select_intervention"
    /\ ~req.done
    /\ req' = [req EXCEPT
                  !.done = TRUE,
                  !.result = SelectInterventionIn(req.arg.stress, req.arg.table,
                                                  req.arg.prefs)]
    /\ UNCHANGED <<now, estimates, instances, interactions, sel, ctx>>

InitSelect ==
    /\ gcp = TRUE
    /\ lock = [k \in DedupKeys |-> NoLock]
    /\ rawRows = {}
    /\ published = {}
    /\ call = [c \in CallIds |-> IdleCall]
    /\ now = 0
    /\ estimates = {}
    /\ instances = <<>>
    /\ interactions = {}
    /\ sel = <<>>
    /\ ctx = <<>>
    /\ req \in SelectCalls
    /\ estimator = <<>>
    /\ topic = {}
    /\ agent = NoAgent

NextSelect ==
    CallSelect /\ UNCHANGED ingestVars /\ UNCHANGED estimatorVars
        /\ UNCHANGED agent

SpecSelect == InitSelect /\ [][NextSelect]_vars

----------------------------------------------------------------------------
(* Claims about the ingestion gateway, checked under SpecIngest.           *)

KeyOfCall(c) == DedupKey(call[c].user_id, call[c].fetched_at)

\* C1: under any interleaving of submit-batch calls, dedup-store failures
\* included, the raw-batch table never holds two rows with the same
\* (user, fetched_at).
C1_OneRowPerBatch ==
    \A r1 \in rawRows, r2 \in rawRows :
        (r1.user_id = r2.user_id /\ r1.fetched_at = r2.fetched_at) => r1 = r2

\* C6: a submit-batch call that reaches the dedup store when the lock of its
\* (user, fetched_at) exists returns "duplicate" with the sample count the
\* lock recorded, and writes no raw-batch row, leaves the lock as it is and
\* publishes nothing.
C6_DuplicateOutcome ==
    [][\A c \in CallIds :
          (/\ call[c].pc = "dedup_get"
           /\ lock[KeyOfCall(c)].exists
           /\ call'[c] # call[c])
          => /\ call'[c].pc = "done"
             /\ call'[c].status = "duplicate"
             /\ call'[c].samples_received = lock[KeyOfCall(c)].total_samples
             /\ lock' = lock
             /\ rawRows' = rawRows
             /\ published' = published]_vars

\* C7: whenever a trigger message is published, the dedup lock of its
\* (user, fetched_at) has been written; and a publish that fails leaves the
\* lock in place and the call returns success.
C7_LockBeforePublish ==
    [][/\ \A m \in published' \ published :
             lock[DedupKey(m.user_id, m.fetched_at)].exists
       /\ \A c \in CallIds :
             (call[c].pc = "publish" /\ call'[c].pc = "done"
                /\ published' = published)
             => (lock' = lock /\ call'[c].status = "success"
                   /\ call'[c].http = 200)]_vars

\* C8: whenever a trigger message for (user, fetched_at) is published, the
\* raw-batch table holds a row for that (user, fetched_at).
C8_RowBeforePublish ==
    [][\A m \in published' \ published :
          \E r \in rawRows :
              r.user_id = m.user_id /\ r.fetched_at = m.fetched_at]_vars

\* C9: the raw-batch row and the trigger message of a submit-batch call
\* carry the same trace id: the batch's own when the batch carries one, a
\* freshly minted one otherwise; a missing trace id does not make the call
\* fail (a call fails only when the warehouse write raises).
C9_TraceCarried ==
    [][/\ \A r \in rawRows' \ rawRows :
             /\ Truthy(r.trace_id)
             /\ r.trace_id = IF Truthy(call[r.call_id].batch_trace)
                             THEN call[r.call_id].batch_trace
                             ELSE Uuid4("uuid_batch", r.call_id)
       /\ \A m \in published' \ published :
             /\ Truthy(m.trace_id)
             /\ m.trace_id = IF Truthy(call[m.call_id].batch_trace)
                             THEN call[m.call_id].batch_trace
                             ELSE Uuid4("uuid_batch", m.call_id)
       /\ \A r \in rawRows', m \in published' :
             r.call_id = m.call_id => r.trace_id = m.trace_id
       /\ \A c \in CallIds :
             (call'[c].status = "error" /\ call[c].status # "error")
             => call[c].pc = "bq_insert"]_vars

\* C9 witness: a batch without a trace id was ingested with success, and its
\* row and its trigger message carry the same minted id.
C9_Witness ==
    \E r \in rawRows, m \in published :
        /\ r.call_id = m.call_id
        /\ r.trace_id = Uuid4("uuid_batch", r.call_id)
        /\ m.trace_id = r.trace_id
        /\ call[r.call_id].pc = "done"
        /\ call[r.call_id].status = "success"

----------------------------------------------------------------------------
(* Claims about the intervention_instances table.  C2 is checked under     *)
(* SpecBurst, the others under SpecInterv.                                 *)

InstancesOf(user_id) ==
    {i \in DOMAIN instances : instances[i].user_id = user_id}

\* C2: no user ever has more than 3 intervention instances whose created_at
\* lie in the same 30-minute window (so a state-estimates message processed
\* when the user has 3 instances of the last 30 minutes appends none).
C2_RateLimit ==
    \A u \in Users, t \in 0..MaxTime :
        Cardinality({i \in InstancesOf(u) :
                        instances[i].created_at \in t..(t + 29)}) <= 3

\* C3: the status of every instance is one of created, sent, accepted,
\* dismissed, failed, and a status only ever changes from created: a status
\* other than created is never changed again.
C3_StatusLifecycle ==
    [][\A i \in DOMAIN instances' :
          /\ instances'[i].status \in
                {"created", "sent", "accepted", "dismissed", "failed"}
          /\ (i \in DOMAIN instances
                /\ instances'[i].status # instances[i].status)
             => instances[i].status = "created"]_vars

\* C4: every intervention-instance row, appended by the selector or by
\* get-context, has a trace id that is not null; a row the selector appends
\* carries the trace id of the state estimate the run read when that has
\* one, and otherwise an id no state estimate and no other row carries.
C4_TraceIdOnEveryRow ==
    [][\A i \in DOMAIN instances' :
          /\ instances'[i].trace_id # NoTrace
          /\ (i \notin DOMAIN instances /\ i[1] = "sel")
             => LET est == sel[i[2]].est_trace
                    tid == instances'[i].trace_id
                IN  IF Truthy(est)
                    THEN tid = est
                    ELSE /\ \A e \in estimates : e.trace_id # tid
                         /\ \A j \in DOMAIN instances :
                                instances[j].trace_id # tid]_vars

\* C4 witness: the table holds a row of the selector with the trace id of
\* the state estimate it was selected from, and a row get-context created.
C4_Witness ==
    \E i \in DOMAIN instances, j \in DOMAIN instances, e \in estimates :
        /\ i[1] = "sel"
        /\ Truthy(e.trace_id)
        /\ e.user_id = instances[i].user_id
        /\ instances[i].trace_id = e.trace_id
        /\ j[1] = "ctx"
        /\ instances[j].trace_id # NoTrace

\* C5: a user who never completed the getting_started flow has at most one
\* instance row with intervention_key getting_started_v1, whatever get-context
\* calls and selector runs took place and however they interleaved.
C5_OneOnboardingRow ==
    \A u \in Users :
        (\A r \in interactions :
            ~(r.user_id = u /\ r.event_type = "flow_completed"))
        => Cardinality({i \in InstancesOf(u) :
               instances[i].intervention_key = "getting_started_v1"}) <= 1

\* C10: no step modifies or deletes a row of the intervention_instances
\* table: once a row is appended all of its fields, status and sent_at
\* included, stay as they are.
C10_RowsNeverModified ==
    [][\A i \in DOMAIN instances :
          i \in DOMAIN instances' /\ instances'[i] = instances[i]]_vars

\* C11: the current status of an instance is the status of the status
\* change with the greatest time, whatever order the changes arrived in:
\* a tapped / dismissed event whose timestamp is earlier than the sent_at of
\* an instance that is sent arrives late and leaves the status sent.
C11_LastWriteWins ==
    [][\A i \in DOMAIN instances :
          \A r \in interactions' \ interactions :
              (/\ r.instance_id = i
               /\ r.event_type \in {"tapped", "dismissed"}
               /\ instances[i].status = "sent"
               /\ r.timestamp < instances[i].sent_at)
              => instances'[i].status = "sent"]_vars

----------------------------------------------------------------------------
(* The gateway with one request observed from its Authorization header to  *)
(* its answer, next to get-context calls of authenticated users.           *)

MaxGatewayCtx == 1

\* An Authorization header: absent, or the words authorization.split()
\* gives (none for an empty header).
NoHeader == [present |-> FALSE, words |-> <<>>]

AuthHeaders ==
    {NoHeader} \cup
    {[present |-> TRUE, words |-> w] :
        w \in {<<>>, <<"Bearer">>, <<"Basic", "token-U1">>,
               <<"Bearer", "token-U1", "extra">>, <<"Bearer", "garbage">>,
               <<"Bearer", "token-U9">>, <<"Bearer", "mock.token">>,
               <<"Bearer", "token-U1">>, <<"bearer", "token-U1">>,
               <<"BEARER", "token-U2">>, <<"Bearer", "token-U2">>}}

\* str.lower() of the scheme words of the model.
Lower(word) ==
    CASE word \in {"Bearer", "bearer", "BEARER"} -> "bearer"
      [] word = "Basic" -> "basic"
      [] OTHER -> word

\* verify_identity_platform_token and get_user_from_token: the user id of a
\* token that verifies, "" for one that does not (ValueError).
TokenSubject(token) ==
    CASE token = "token-U1" -> "U1"
      [] token = "token-U2" -> "U2"
      [] token = "token-U9" -> "U9"
      [] OTHER -> ""

\* A mutant of GetCurrentUser: the scheme word is not looked at.
GetCurrentUserAnyScheme(authorization) ==
    LET parts == authorization.words
        token == parts[2]
        answer(http, user_id) == [http |-> http, user_id |-> user_id]
    IN  IF ~authorization.present \/ parts = <<>> THEN answer(401, "")
        ELSE IF Len(parts) # 2 THEN answer(401, "")
        ELSE IF token = "mock.token" THEN answer(200, "mock-user-default")
        ELSE IF TokenSubject(token) = "" THEN answer(401, "")
        ELSE IF TokenSubject(token) \notin Users THEN answer(500, "")
        ELSE answer(200, TokenSubject(token))

\* get_current_user: 401 without a header, with an empty one and with one
\* that is not "Bearer <token>"; the mock user for a token that starts with
\* "mock."; 401 for a token that does not verify; 500 for the token of a
\* user the repository does not know (the 404 raised inside the try block
\* is caught by its last except clause); the user otherwise.
GetCurrentUser(authorization) ==
    LET parts == authorization.words
        token == parts[2]
        answer(http, user_id) == [http |-> http, user_id |-> user_id]
    IN  IF ~authorization.present \/ parts = <<>> THEN answer(401, "")
        ELSE IF Len(parts) # 2 \/ Lower(parts[1]) # "bearer" THEN answer(401, "")
        ELSE IF token = "mock.token" THEN answer(200, "mock-user-default")
        ELSE IF TokenSubject(token) = "" THEN answer(401, "")
        ELSE IF TokenSubject(token) \notin Users THEN answer(500, "")
        ELSE answer(200, TokenSubject(token))

\* The event types of the app, and one it does not know.
GatewayEventTypes ==
    EventTypes \cup {"flow_reset", "intervention_saved", "intervention_unsaved",
                     "custom_event"}

\* The requests: every event of every user about no instance or about an
\* instance get-context created, under every header; and requests to the
\* other endpoints under the headers get_current_user rejects.
GatewayRequests ==
    {[op |-> "app_interactions",
      arg |-> [authorization |-> h,
               interaction |-> InteractionRequest(u, ev, id, ts)],
      done |-> FALSE, result |-> <<>>]
     : h \in AuthHeaders, u \in Users, ev \in GatewayEventTypes,
       id \in {NoId} \cup {<<"ctx", q>> : q \in 1..MaxGatewayCtx},
       ts \in ClientTimes}
    \cup
    {[op |-> op, arg |-> [authorization |-> h], done |-> FALSE, result |-> <<>>]
     : op \in {"watch_events", "context", "user_reset"},
       h \in {a \in AuthHeaders : GetCurrentUser(a).http # 200}}

\* Depends(get_current_user) raised: the answer is its status and the
\* handler is not called.
Unauthenticated ==
    /\ ~req.done
    /\ req.op \in {"watch_events", "app_interactions", "context", "user_reset"}
    /\ GetCurrentUser(req.arg.authorization).http # 200
    /\ req' = [req EXCEPT
                  !.done = TRUE,
                  !.result = [http |-> GetCurrentUser(req.arg.authorization).http,
                              update |-> "none"]]
    /\ UNCHANGED <<now, estimates, instances, interactions, sel, ctx>>

\* POST /app_interactions of a user get_current_user accepted.
PostAppInteractions ==
    /\ ~req.done
    /\ req.op = "app_interactions"
    /\ GetCurrentUser(req.arg.authorization).http = 200
    /\ \E insert_ok \in BOOLEAN, update_ok \in BOOLEAN :
          LET answer == AppInteractions(
                            GetCurrentUser(req.arg.authorization).user_id,
                            req.arg.interaction, insert_ok, update_ok)
          IN  /\ interactions' = answer.interactions
              /\ instances' = answer.instances
              /\ req' = [req EXCEPT
                            !.done = TRUE,
                            !.result = [http |-> answer.http,
                                        update |-> answer.update]]
    /\ UNCHANGED <<now, estimates, sel, ctx>>

InitGateway ==
    /\ gcp = TRUE
    /\ lock = [k \in DedupKeys |-> NoLock]
    /\ rawRows = {}
    /\ published = {}
    /\ call = [c \in CallIds |-> IdleCall]
    /\ now = 0
    /\ estimates = {}
    /\ instances = <<>>
    /\ interactions = {}
    /\ sel = <<>>
    /\ ctx = [q \in 1..MaxGatewayCtx |-> IdleCtx]
    /\ req \in GatewayRequests
    /\ estimator = <<>>
    /\ topic = {}
    /\ agent = NoAgent

NextGateway ==
    /\ \/ \E q \in DOMAIN ctx :
             \/ CtxCheck(q) /\ UNCHANGED req
             \/ CtxCreate(q) /\ UNCHANGED req
             \/ CtxRead(q) /\ UNCHANGED req
       \/ Unauthenticated
       \/ PostAppInteractions
    /\ UNCHANGED ingestVars
    /\ UNCHANGED estimatorVars
    /\ UNCHANGED agent

SpecGateway == InitGateway /\ [][NextGateway]_vars

----------------------------------------------------------------------------
(* Saved interventions and the reset endpoint: save and unsave events of   *)
(* the app, one reset request observed to its answer, and get-context.     *)

MaxSaveEvents == 2

SavedKeys == {"K1", "K2"}

\* The requests of the app in this part: an intervention is saved or
\* unsaved (the payload names the key), or the onboarding flow is completed.
SavedRequests ==
    {[InteractionRequest(u, ev, NoId, ts) EXCEPT !.intervention_key = k] :
        u \in Users, ev \in {"intervention_saved", "intervention_unsaved"},
        k \in SavedKeys, ts \in ClientTimes}
    \cup {InteractionRequest(u, "flow_completed", NoId, ts) :
            u \in Users, ts \in ClientTimes}

\* The app posts one of them.
SubmitSaved ==
    /\ Cardinality({r \in interactions : r.event_type # "flow_reset"})
          < MaxSaveEvents
    /\ \E it \in SavedRequests, insert_ok \in BOOLEAN :
          LET answer == AppInteractions(it.user_id, it, insert_ok, TRUE)
          IN  /\ interactions' = answer.interactions
              /\ instances' = answer.instances
    /\ UNCHANGED <<now, estimates, sel, ctx>>

\* A mutant of ValidScope: every scope is taken.
ValidScopeAny(scope) == TRUE

\* scope in ("all", "flows", "saved")
ValidScope(scope) == scope \in {"all", "flows", "saved"}

\* The flow_reset row of reset_user_data.
ResetRow(user_id, scope, n) ==
    [InteractionRow(user_id, "flow_reset", NoId, now, n)
       EXCEPT !.scope = scope, !.trace_id = Uuid4("uuid_reset", n)]

\* The reset requests: every user's, with the three scopes, with one the
\* handler does not know and with the empty one.
ResetRequests ==
    {[op |-> "user_reset",
      arg |-> [authorization |-> [present |-> TRUE, words |-> <<"Bearer", token>>],
               scope |-> scope],
      done |-> FALSE, result |-> <<>>]
     : token \in {"token-U1", "token-U2"},
       scope \in {"all", "flows", "saved", "everything", ""}}

\* POST /user/reset of a user get_current_user accepted: 400 for a scope
\* that is not one of the three; otherwise the flow_reset row is inserted
\* (row errors are a 500).
PostUserReset ==
    /\ ~req.done
    /\ req.op = "user_reset"
    /\ GetCurrentUser(req.arg.authorization).http = 200
    /\ \E insert_ok \in BOOLEAN :
          LET http == IF ~ValidScope(req.arg.scope) THEN 400
                      ELSE IF ~insert_ok THEN 500 ELSE 200
          IN  /\ interactions' =
                    IF http = 200
                    THEN interactions \cup
                           {ResetRow(GetCurrentUser(req.arg.authorization).user_id,
                                     req.arg.scope, Cardinality(interactions) + 1)}
                    ELSE interactions
              /\ req' = [req EXCEPT
                            !.done = TRUE,
                            !.result = [http |-> http, update |-> "none"]]
    /\ UNCHANGED <<now, estimates, instances, sel, ctx>>

InitSaved ==
    /\ gcp = TRUE
    /\ lock = [k \in DedupKeys |-> NoLock]
    /\ rawRows = {}
    /\ published = {}
    /\ call = [c \in CallIds |-> IdleCall]
    /\ now = 0
    /\ estimates = {}
    /\ instances = <<>>
    /\ interactions = {}
    /\ sel = <<>>
    /\ ctx = [q \in {1} |-> IdleCtx]
    /\ req \in ResetRequests
    /\ estimator = <<>>
    /\ topic = {}
    /\ agent = NoAgent

NextSaved ==
    /\ \/ Tick /\ UNCHANGED req
       \/ SubmitSaved /\ UNCHANGED req
       \/ PostUserReset
       \/ \E q \in DOMAIN ctx :
             \/ CtxCheck(q) /\ UNCHANGED req
             \/ CtxCreate(q) /\ UNCHANGED req
             \/ CtxRead(q) /\ UNCHANGED req
    /\ UNCHANGED ingestVars
    /\ UNCHANGED estimatorVars
    /\ UNCHANGED agent

SpecSaved == InitSaved /\ [][NextSaved]_vars

----------------------------------------------------------------------------
(* get_context over the rows intervention_instances can hold: rows of the  *)
(* selector, rows with another status, and rows without a trace_id (the    *)
(* column is nullable and get_context reads it as it is).                  *)

StoredTables ==
    {<<>>} \cup
    {(<<"stored", 1>> :>
        [InstanceRow(u, Catalog[k], t) EXCEPT !.status = st, !.created_at = 0,
                                              !.scheduled_at = 0]) :
        u \in Users, k \in {"K_high", "getting_started_v1"},
        t \in {NoTrace, <<"client", 1>>}, st \in {"created", "sent"}}

\* The rows of app_interactions at that time: U1 has or has not completed
\* getting_started, and has asked for it long ago, just now, or not at all.
StoredLogs ==
    SUBSET ({InteractionRow("U1", "flow_completed", NoId, 0, 0)}
            \cup {InteractionRow("U1", "flow_requested", NoId, t, 0) :
                     t \in ClientTimes})

InitStored ==
    /\ gcp = TRUE
    /\ lock = [k \in DedupKeys |-> NoLock]
    /\ rawRows = {}
    /\ published = {}
    /\ call = [c \in CallIds |-> IdleCall]
    /\ now = MaxTime
    /\ estimates = {}
    /\ instances \in StoredTables
    /\ interactions \in StoredLogs
    /\ sel = <<>>
    /\ ctx = [q \in 1..MaxGatewayCtx |-> IdleCtx]
    /\ req = NoRequest
    /\ estimator = <<>>
    /\ topic = {}
    /\ agent = NoAgent

NextStored ==
    /\ \E q \in DOMAIN ctx : CtxCheck(q) \/ CtxCreate(q) \/ CtxRead(q)
    /\ UNCHANGED <<ingestVars, req>>
    /\ UNCHANGED estimatorVars
    /\ UNCHANGED agent

SpecStored == InitStored /\ [][NextStored]_vars

----------------------------------------------------------------------------
(* The selector's handler intervention_selector with the messages it can   *)
(* be given: one message, delivered once or more, and the state estimates  *)
(* of the users as they are when it is processed.                          *)

MaxDeliveries == 2

\* What cloud_event.get_data() can give.  envelope: nothing ("none"),
\* something that is not a dict with a "message" ("other"), a "message"
\* that is not a dict, a "data" that is not a str, or the Pub/Sub envelope
\* ("ok"); text: what the data field holds, bytes that are not base64,
\* UTF-8 or JSON, a JSON value that is falsy (null, {}, [], 0, ""), another
\* JSON value that is not an object ([1], "x", 5, true), or an object, of
\* which user_id and timestamp are given ("" and 0 when missing or empty).
SelectorMessages ==
    {[envelope |-> v, text |-> "object", user_id |-> "", timestamp |-> 0] :
        v \in {"none", "other", "message_not_dict", "data_not_str"}}
    \cup {[envelope |-> "ok", text |-> x, user_id |-> "", timestamp |-> 0] :
             x \in {"bad_base64", "bad_utf8", "bad_json", "falsy",
                    "non_object"}}
    \cup {[envelope |-> "ok", text |-> "object", user_id |-> u, timestamp |-> t] :
             u \in Users \cup {""}, t \in 0..2}

\* intervention_selector up to process_state_estimate: "dropped" when the
\* handler logs and returns, "raises" when it raises (msg.get on a message
\* that is not a dict, payload.get on a payload that is not an object:
\* AttributeError, logged and re-raised), "process" otherwise.
DecodeSelectorMessage(m) ==
    IF m.envelope = "none" THEN "dropped"
    ELSE IF m.envelope = "other" THEN "dropped"
    ELSE IF m.envelope = "message_not_dict" THEN "raises"
    ELSE IF m.envelope = "data_not_str" THEN "dropped"
    ELSE IF m.text \in {"bad_base64", "bad_utf8", "bad_json"} THEN "dropped"
    ELSE IF m.text = "falsy" THEN "dropped"
    ELSE IF m.text = "non_object" THEN "raises"
    ELSE IF m.user_id = "" \/ m.timestamp = 0 THEN "dropped"
    ELSE "process"

\* The message req.arg is delivered to run p.
InterventionSelector(p) ==
    /\ sel[p].pc = "idle"
    /\ \A d \in DOMAIN sel : d < p => sel[d].pc # "idle"
    /\ LET m == req.arg
           decoded == DecodeSelectorMessage(m)
       IN  CASE decoded = "dropped" ->
                  sel' = [sel EXCEPT ![p] = SelDone("dropped")]
             [] decoded = "raises" ->
                  sel' = [sel EXCEPT ![p] = SelDone("raised")]
             [] OTHER -> ProcessStateEstimate(p, m.user_id, m.timestamp)
    /\ UNCHANGED <<now, estimates, instances, interactions, ctx, req>>

\* The state_estimates table when the message is processed: empty, one
\* row, or two rows of which the second is the later one.
EstimateTables ==
    {{}}
    \cup {{[user_id |-> e.user_id, trace_id |-> e.trace_id,
            stress |-> e.stress, timestamp |-> 1]} : e \in EstimateInputs}
    \cup {{[user_id |-> e.user_id, trace_id |-> e.trace_id,
            stress |-> e.stress, timestamp |-> 1],
           [user_id |-> f.user_id, trace_id |-> f.trace_id,
            stress |-> f.stress, timestamp |-> 2]} :
             e \in EstimateInputs, f \in EstimateInputs}

InitHandler ==
    /\ gcp = TRUE
    /\ lock = [k \in DedupKeys |-> NoLock]
    /\ rawRows = {}
    /\ published = {}
    /\ call = [c \in CallIds |-> IdleCall]
    /\ now = 0
    /\ estimates \in EstimateTables
    /\ instances = <<>>
    /\ interactions = {}
    /\ sel = [p \in 1..MaxDeliveries |-> IdleSel]
    /\ ctx = <<>>
    /\ req \in {[op |-> "state_estimates", arg |-> m, done |-> FALSE,
                 result |-> <<>>] : m \in SelectorMessages}
    /\ estimator = <<>>
    /\ topic = {}
    /\ agent = NoAgent

NextHandler ==
    /\ \E p \in 1..MaxDeliveries :
          \/ InterventionSelector(p)
          \/ SelGate(p) /\ UNCHANGED req
          \/ SelCreate(p) /\ UNCHANGED req
          \/ SelPush(p) /\ UNCHANGED req
    /\ UNCHANGED ingestVars
    /\ UNCHANGED estimatorVars
    /\ UNCHANGED agent

SpecHandler == InitHandler /\ [][NextHandler]_vars

----------------------------------------------------------------------------
(* has_completed_flow called on its own, over small logs of flow_completed *)
(* and flow_reset rows.                                                    *)

MaxFlowLogRows == 3
MaxFlowLogTime == 2

\* Rows of app_interactions that has_completed_flow can meet: flow_completed
\* with the flow_id and the flow_version of the app's payload (no version
\* when the payload has none) and flow_reset with its scope.
FlowLogRows ==
    {[InteractionRow(u, "flow_completed", NoId, t, 0)
        EXCEPT !.flow_id = f, !.flow_version = v] :
        u \in {"U1"}, t \in 0..MaxFlowLogTime,
        f \in {"getting_started", "breathing"}, v \in {"v1", "v2", ""}}
    \cup {[ResetRow(u, scope, 0) EXCEPT !.timestamp = t] :
             u \in {"U1"}, t \in 0..MaxFlowLogTime,
             scope \in {"all", "flows", "saved"}}

\* has_completed_flow(user_id, flow_id, flow_version) is called and answers.
CallHasCompletedFlow ==
    /\ ~req.done
    /\ \E answer \in HasCompletedFlowQuery(interactions, req.arg[1],
                                            req.arg[2], req.arg[3]) :
          req' = [req EXCEPT !.done = TRUE, !.result = answer]
    /\ UNCHANGED <<now, estimates, instances, interactions, sel, ctx>>

InitFlowLog ==
    /\ gcp = TRUE
    /\ lock = [k \in DedupKeys |-> NoLock]
    /\ rawRows = {}
    /\ published = {}
    /\ call = [c \in CallIds |-> IdleCall]
    /\ now = 0
    /\ estimates = {}
    /\ instances = <<>>
    /\ interactions \in {log \in SUBSET FlowLogRows :
                             Cardinality(log) <= MaxFlowLogRows}
    /\ sel = <<>>
    /\ ctx = <<>>
    /\ req \in {[op |-> "has_completed_flow",
                  arg |-> <<"U1", "getting_started", v>>,
                  done |-> FALSE, result |-> FALSE] : v \in {"v1", "v2"}}
    /\ estimator = <<>>
    /\ topic = {}
    /\ agent = NoAgent

NextFlowLog ==
    /\ CallHasCompletedFlow
    /\ UNCHANGED ingestVars
    /\ UNCHANGED estimatorVars
    /\ UNCHANGED agent

SpecFlowLog == InitFlowLog /\ [][NextFlowLog]_vars

----------------------------------------------------------------------------
(* Conversational agent: POST /chat and POST /tool_event of one process.   *)
(* The handlers are coroutines of one event loop: a request runs until it  *)
(* awaits (the model call, the checkpointer), and other requests run       *)
(* meanwhile.                                                              *)

MaxAgentRuns == 2
MaxModelCalls == 2

AgentIds == 1..MaxAgentRuns

\* A request: the authenticated user, the number of model calls made, the
\* users whose context ContextInjectionMiddleware loaded into the prompt
\* and whose context update_user_context saved for this request.
IdleAgent ==
    [pc |-> "idle", user_id |-> "", model_calls |-> 0,
     injected |-> {}, saved |-> {}]

\* AgentService.chat_stream and tool_event_endpoint up to the agent's
\* invocation: update_user_context._user_id = user_id and
\* set_middleware_user_id(user_id), with no await between the two.
\* Requests take their ids in the order they arrive.
ChatStream(r) ==
    /\ agent.run[r].pc = "idle"
    /\ \A d \in DOMAIN agent.run : d < r => agent.run[d].pc # "idle"
    /\ \E u \in Users :
          agent' = [agent EXCEPT
                       !.current_user_id = u,
                       !.tool_user_id = u,
                       !.run[r] = [IdleAgent EXCEPT !.pc = "before_model",
                                                    !.user_id = u]]
    /\ UNCHANGED <<ingestVars, intervVars, req, estimatorVars>>

\* before_model of the two middleware, before each model call: both read
\* _current_user_id; ContextInjectionMiddleware loads that user's context
\* and puts it in front of the first human message (the gating middleware
\* loads it only for a health_metric_changed tool message, which no tool
\* of this agent returns).  Then the model is called.
BeforeModel(r) ==
    /\ agent.run[r].pc = "before_model"
    /\ agent' = [agent EXCEPT
                    !.run[r].pc = "model",
                    !.run[r].model_calls = @ + 1,
                    !.run[r].injected =
                        IF agent.current_user_id = "" THEN @
                        ELSE @ \cup {agent.current_user_id}]
    /\ UNCHANGED <<ingestVars, intervVars, req, estimatorVars>>

\* The model answers: with a call of update_user_context, which reads the
\* _user_id attribute, loads that user's context and saves the update in
\* it, after which the model is called again; or with the final message.
UpdateUserContext(r) ==
    /\ agent.run[r].pc = "model"
    /\ agent.run[r].model_calls < MaxModelCalls
    /\ agent' = [agent EXCEPT
                    !.run[r].pc = "before_model",
                    !.run[r].saved =
                        IF agent.tool_user_id = "" THEN @
                        ELSE @ \cup {agent.tool_user_id}]
    /\ UNCHANGED <<ingestVars, intervVars, req, estimatorVars>>

AgentAnswers(r) ==
    /\ agent.run[r].pc = "model"
    /\ agent' = [agent EXCEPT !.run[r].pc = "done"]
    /\ UNCHANGED <<ingestVars, intervVars, req, estimatorVars>>

InitAgent ==
    /\ gcp = TRUE
    /\ lock = [k \in DedupKeys |-> NoLock]
    /\ rawRows = {}
    /\ published = {}
    /\ call = [c \in CallIds |-> IdleCall]
    /\ now = 0
    /\ estimates = {}
    /\ instances = <<>>
    /\ interactions = {}
    /\ sel = <<>>
    /\ ctx = <<>>
    /\ req = NoRequest
    /\ estimator = <<>>
    /\ topic = {}
    /\ agent = [NoAgent EXCEPT !.run = [r \in AgentIds |-> IdleAgent]]

NextAgent ==
    \E r \in AgentIds :
        \/ ChatStream(r)
        \/ BeforeModel(r)
        \/ UpdateUserContext(r)
        \/ AgentAnswers(r)

SpecAgent == InitAgent /\ [][NextAgent]_vars

----------------------------------------------------------------------------
(* State estimator: the Cloud Function state_estimator and run_pipeline.   *)

MaxEstimatorRuns == 2
MaxEstimateRows == 2
EstimatorTickMinutes == 3
MaxEstimatorTime == 6

\* INTERVAL 5 MINUTE of the query of publish_state_estimates.
LookBackMinutes == 5

EstimatorIds == 1..MaxEstimatorRuns

\* What cloud_event.get_data() can give: nothing, a dict, a str, and bytes
\* that are or are not base64, UTF-8 and JSON.
EstimatorMessages ==
    {[type |-> "none", base64 |-> TRUE, utf8 |-> TRUE, json |-> TRUE],
     [type |-> "dict", base64 |-> TRUE, utf8 |-> TRUE, json |-> TRUE],
     [type |-> "str", base64 |-> FALSE, utf8 |-> TRUE, json |-> FALSE]}
    \cup {[type |-> "bytes", base64 |-> b, utf8 |-> u, json |-> j] :
             b \in BOOLEAN, u \in BOOLEAN, j \in BOOLEAN}

\* The handler's reading of the message: bytes go through
\* base64.b64decode(...).decode("utf-8") and json.loads, of which only
\* json.JSONDecodeError is caught; a dict is logged; anything else is
\* passed over.
DecodeMessage(m) ==
    IF m.type = "none" THEN "skipped"
    ELSE IF m.type = "dict" THEN "logged"
    ELSE IF m.type # "bytes" THEN "skipped"
    ELSE IF ~m.base64 \/ ~m.utf8 THEN "raises"
    ELSE IF m.json THEN "logged" ELSE "logged_non_json"

IdleEstimator ==
    [pc |-> "idle", message |-> [type |-> "none", base64 |-> TRUE,
                                 utf8 |-> TRUE, json |-> TRUE],
     project_id |-> FALSE, outcome |-> "none", acked |-> FALSE,
     publish |-> "none", unsent |-> {}]

\* The handler has returned or raised; the message is acknowledged when it
\* returned and is redelivered when it raised.
EstimatorDone(frame, outcome) ==
    [frame EXCEPT !.pc = "done", !.outcome = outcome,
                  !.acked = (outcome = "completed")]

\* The clock of the estimator's specification.
EstimatorTick ==
    /\ now + EstimatorTickMinutes <= MaxEstimatorTime
    /\ now' = now + EstimatorTickMinutes
    /\ UNCHANGED <<estimates, estimator, topic>>

\* state_estimator up to run_pipeline: the message is read, GCP_PROJECT_ID
\* is looked up (ValueError when it is not set).  Runs take their ids in
\* the order they start.
EstimatorReceive(r) ==
    /\ estimator[r].pc = "idle"
    /\ \A d \in DOMAIN estimator : d < r => estimator[d].pc # "idle"
    /\ \E m \in EstimatorMessages, project_id \in BOOLEAN :
          estimator' = [estimator EXCEPT ![r] =
              IF DecodeMessage(m) = "raises" \/ ~project_id
              THEN EstimatorDone([@ EXCEPT !.message = m,
                                           !.project_id = project_id], "raised")
              ELSE [@ EXCEPT !.pc = "views", !.message = m,
                             !.project_id = project_id]]
    /\ UNCHANGED <<now, estimates, topic>>

\* repository.execute_script(views.sql): an error is raised on.
EstimatorViews(r) ==
    /\ estimator[r].pc = "views"
    /\ \/ estimator' = [estimator EXCEPT ![r].pc = "transform"]
       \/ estimator' = [estimator EXCEPT ![r] = EstimatorDone(@, "raised")]
    /\ UNCHANGED <<now, estimates, topic>>

\* What transform.sql can have written at time t: no row, or one row of
\* that time for a user with unprocessed batches.
TransformRows(t) ==
    {{}} \cup
    {{[user_id |-> e.user_id, trace_id |-> e.trace_id, stress |-> e.stress,
       timestamp |-> t]} : e \in EstimateInputs}

\* repository.execute_script(transform.sql): an error is raised on;
\* otherwise the script has run.
EstimatorTransform(r) ==
    /\ estimator[r].pc = "transform"
    /\ \/ /\ estimator' = [estimator EXCEPT ![r] = EstimatorDone(@, "raised")]
          /\ UNCHANGED estimates
       \/ /\ estimator' = [estimator EXCEPT ![r].pc = "publish"]
          /\ \E rows \in TransformRows(now) :
                /\ Cardinality(estimates \cup rows) <= MaxEstimateRows
                /\ estimates' = estimates \cup rows
    /\ UNCHANGED <<now, topic>>

\* A mutant of LatestPerUser: the rows are numbered by timestamp ASC.
EarliestPerUser(rows, t) ==
    LET recent == {e \in rows : e.timestamp >= t - LookBackMinutes}
    IN  {[user_id |-> e.user_id, timestamp |-> e.timestamp] :
            e \in {x \in recent :
                      \A f \in recent :
                          f.user_id = x.user_id => f.timestamp >= x.timestamp}}

\* The query of publish_state_estimates at time t: of the rows of the last
\* 5 minutes the one numbered 1 per user by timestamp DESC, user_id and
\* timestamp of it.
LatestPerUser(rows, t) ==
    LET recent == {e \in rows : e.timestamp >= t - LookBackMinutes}
    IN  {[user_id |-> e.user_id, timestamp |-> e.timestamp] :
            e \in {x \in recent :
                      \A f \in recent :
                          f.user_id = x.user_id => f.timestamp <= x.timestamp}}

\* publish_state_estimates: the query, then one message per row; the
\* first error (of the client, of the query or of a publish) ends the loop
\* and is logged, so any part of the rows may have been published; the
\* pipeline and the handler return.
EstimatorPublish(r) ==
    /\ estimator[r].pc = "publish"
    /\ LET rows == LatestPerUser(estimates, now)
       IN  \E sent \in SUBSET rows, error \in BOOLEAN :
              /\ ~error => sent = rows
              /\ error => sent # rows \/ rows = {}
              /\ topic' = topic \cup
                    {[user_id |-> m.user_id, timestamp |-> m.timestamp,
                      run |-> r] : m \in sent}
              /\ estimator' = [estimator EXCEPT ![r] =
                    [EstimatorDone(@, "completed") EXCEPT
                        !.publish = IF error THEN "failed" ELSE "published",
                        !.unsent = rows \ sent]]
    /\ UNCHANGED <<now, estimates>>

InitEstimator ==
    /\ gcp = TRUE
    /\ lock = [k \in DedupKeys |-> NoLock]
    /\ rawRows = {}
    /\ published = {}
    /\ call = [c \in CallIds |-> IdleCall]
    /\ now = 0
    /\ estimates = {}
    /\ instances = <<>>
    /\ interactions = {}
    /\ sel = <<>>
    /\ ctx = <<>>
    /\ req = NoRequest
    /\ estimator = [r \in EstimatorIds |-> IdleEstimator]
    /\ topic = {}
    /\ agent = NoAgent

NextEstimator ==
    /\ \/ EstimatorTick
       \/ \E r \in DOMAIN estimator :
             \/ EstimatorReceive(r)
             \/ EstimatorViews(r)
             \/ EstimatorTransform(r)
             \/ EstimatorPublish(r)
    /\ UNCHANGED <<ingestVars, instances, interactions, sel, ctx, req, agent>>

SpecEstimator == InitEstimator /\ [][NextEstimator]_vars

----------------------------------------------------------------------------
(* Claims about the selector's functions and its delivery step.            *)

\* C12: for every intervention select_intervention chooses, the
\* preference entry of the chosen surface does not have both shown_count
\* >= 5 and min(annoyance_rate, 0.9) > 0.7; a row whose surface has
\* annoyance rate 1.0 is never chosen at shown_count 5, and is chosen at
\* shown_count 4 when it is the only row of the table and fits the level.
C12_NoSuppressedSurface ==
    (req.op = "select_intervention" /\ req.done) =>
        LET prefs == req.arg.prefs
            table == req.arg.table
            chosen == req.result
        IN  /\ chosen # NoIntervention =>
                  ~(/\ prefs[chosen.surface].shown_count >= 5
                    /\ Min(prefs[chosen.surface].annoyance_rate, 90) > 70)
            /\ \A sf \in DOMAIN prefs :
                  (prefs[sf].annoyance_rate = 100 /\ prefs[sf].shown_count = 5)
                  => chosen.surface # sf
            /\ (/\ Len(table) = 1
                /\ table[1].enabled
                /\ table[1].level = "high"
                /\ req.arg.stress = 8500
                /\ prefs[table[1].surface].annoyance_rate = 100
                /\ prefs[table[1].surface].shown_count = 4)
               => chosen = table[1]

\* C12 (witness): a call whose table offers for the level a row on a
\* surface with annoyance rate 1.0 after five showings and a row on another
\* surface, which is chosen.
C12_Witness ==
    /\ req.op = "select_intervention" /\ req.done
    /\ req.arg.stress = 8500
    /\ req.result # NoIntervention
    /\ \E i \in DOMAIN req.arg.table :
          /\ req.arg.table[i].enabled
          /\ req.arg.table[i].level = "high"
          /\ req.arg.prefs[req.arg.table[i].surface].annoyance_rate = 100
          /\ req.arg.prefs[req.arg.table[i].surface].shown_count = 5

\* C13: among the enabled rows of the table for metric stress and the
\* bucketed level whose surface is not suppressed, select_intervention
\* returns the row with the greatest 1.0 + preference_score and, among rows
\* of equal score, the one with the smallest intervention_key, whatever the
\* order of the rows in the table; it returns nothing when there is no
\* such row.
C13_BestScoreThenKey ==
    (req.op = "select_intervention" /\ req.done) =>
        LET prefs == req.arg.prefs
            table == req.arg.table
            stress == req.arg.stress
            level == IF stress > 7000 THEN "high"
                     ELSE IF stress >= 3000 THEN "medium" ELSE "low"
            survivors ==
                {row \in {table[i] : i \in DOMAIN table} :
                    /\ stress # NoStress
                    /\ row.enabled /\ row.metric = "stress" /\ row.level = level
                    /\ ~(/\ prefs[row.surface].shown_count >= 5
                         /\ prefs[row.surface].annoyance_rate > 70)}
            Score(row) == 100 + prefs[row.surface].preference_score
        IN  IF survivors = {} THEN req.result = NoIntervention
            ELSE /\ req.result \in survivors
                 /\ \A row \in survivors :
                       \/ Score(req.result) > Score(row)
                       \/ /\ Score(req.result) = Score(row)
                          /\ KeyRank(req.result.intervention_key)
                                 <= KeyRank(row.intervention_key)

\* C13 (witness): a call whose table lists, before the row that is chosen,
\* a row of the same level and the same score that is not suppressed and
\* has a greater key.
C13_Witness ==
    /\ req.op = "select_intervention" /\ req.done
    /\ req.result # NoIntervention
    /\ \E i \in DOMAIN req.arg.table, j \in DOMAIN req.arg.table :
          /\ i < j
          /\ req.arg.table[j] = req.result
          /\ req.arg.table[i].enabled
          /\ req.arg.table[i].level = req.result.level
          /\ req.arg.prefs[req.arg.table[i].surface].shown_count < 5
          /\ req.arg.prefs[req.arg.table[i].surface].preference_score
                = req.arg.prefs[req.result.surface].preference_score
          /\ KeyRank(req.arg.table[i].intervention_key)
                > KeyRank(req.result.intervention_key)

\* C14: bucket_stress maps a score s to high when s > 0.7, to medium when
\* 0.3 <= s <= 0.7 and to low when s < 0.3; and the selector appends no
\* instance when the latest state estimate has no stress score: a run
\* goes on to the onboarding gate or to the insert only from an estimate
\* with a stress score, and only a run that is at the insert appends a row.
C14_BucketsAndNoStress ==
    /\ [](req.op = "bucket_stress" /\ req.arg # NoStress =>
            /\ req.arg > 7000 => req.result = "high"
            /\ (3000 <= req.arg /\ req.arg <= 7000) => req.result = "medium"
            /\ req.arg < 3000 => req.result = "low")
    /\ [][\A p \in DOMAIN sel :
            /\ (sel[p].pc = "idle" /\ sel'[p].pc \in {"gate", "create", "push"})
               => \A e \in LatestEstimates(sel'[p].user_id) : e.stress # NoStress
            /\ (<<"sel", p>> \in DOMAIN instances' \ DOMAIN instances)
               => sel[p].pc = "create"]_vars

\* C14 (witness): bucket_stress answered medium for 0.7, and a run for a
\* user whose only state estimate has no stress score ended with nothing
\* selected and no instance.
C14_Witness ==
    /\ req.op = "bucket_stress" /\ req.arg = 7000 /\ req.result = "medium"
    /\ \E p \in DOMAIN sel : sel[p].outcome = "none_selected"
    /\ estimates # {}
    /\ \A e \in estimates : e.stress = NoStress
    /\ instances = <<>>

\* C15: the delivery step sets the status of the instance the run
\* appended to sent, with sent_at the current time, only when a device
\* token was resolved and the push succeeded; when the token is missing or
\* the push fails the instances table is left as it is (the status is not
\* set to failed) and the handler returns, so the message is acknowledged.
C15_SentOnlyAfterPush ==
    [][\A p \in DOMAIN sel :
          (sel[p].pc = "push" /\ sel'[p].pc = "done") =>
              LET id == sel[p].instance_id IN
              /\ sel'[p].outcome \in {"sent", "no_token", "push_failed", "raised"}
              /\ sel'[p].outcome = "sent" =>
                    /\ instances'[id].status = "sent"
                    /\ instances'[id].sent_at = now
              /\ sel'[p].outcome \in {"no_token", "push_failed"} =>
                    instances' = instances
              /\ instances'[id] # instances[id] => sel'[p].outcome = "sent"
              /\ instances'[id].status # "failed"]_vars

\* C15 (witness): a run ended after a push that failed, and its instance
\* has status created and no sent_at.
C15_Witness ==
    \E p \in DOMAIN sel :
        /\ sel[p].outcome = "push_failed"
        /\ <<"sel", p>> \in DOMAIN instances
        /\ instances[<<"sel", p>>].status = "created"
        /\ instances[<<"sel", p>>].sent_at = NoTime

----------------------------------------------------------------------------
(* Claims about the gateway's requests.                                    *)

\* The step that answers the request observed.
Answered == ~req.done /\ req'.done

\* The rows of the app-interaction log that the step appended for the
\* request observed.
AppendedRows ==
    {r \in interactions' \ interactions :
        /\ r.user_id = req.arg.interaction.user_id
        /\ r.event_type = req.arg.interaction.event_type
        /\ r.instance_id = req.arg.interaction.intervention_instance_id
        /\ r.timestamp = req.arg.interaction.timestamp
        /\ r.trace_id = req.arg.interaction.trace_id}

\* C16: a submit-interaction that succeeds sets the status of the instance
\* it names to accepted for a tapped event and to dismissed for a dismissed
\* event (when the status change did not fail) and leaves every other
\* instance as it is; for every other event type it appends the
\* interaction row and leaves all instances as they are.
C16_StatusByEventType ==
    [][(Answered /\ req.op = "app_interactions" /\ req'.result.http = 200) =>
          LET ev == req.arg.interaction.event_type
              id == req.arg.interaction.intervention_instance_id
          IN  /\ DOMAIN instances' = DOMAIN instances
              /\ \A i \in DOMAIN instances :
                    i # id => instances'[i] = instances[i]
              /\ (ev = "tapped" /\ req'.result.update = "done"
                     /\ id \in DOMAIN instances)
                  => instances'[id] = [instances[id] EXCEPT !.status = "accepted"]
              /\ (ev = "dismissed" /\ req'.result.update = "done"
                     /\ id \in DOMAIN instances)
                  => instances'[id] = [instances[id] EXCEPT !.status = "dismissed"]
              /\ ev \in {"tapped", "dismissed"}
                  => req'.result.update \in {"done", "failed"}
              /\ ev \notin {"tapped", "dismissed"}
                  => /\ Cardinality(AppendedRows) = 1
                     /\ interactions' = interactions \cup AppendedRows
                     /\ instances' = instances]_vars

\* C16 (witness): a dismissed event about an instance that exists was
\* answered with success, and the instance is dismissed.
C16_Witness ==
    /\ req.op = "app_interactions" /\ req.done
    /\ req.result.http = 200 /\ req.result.update = "done"
    /\ req.arg.interaction.event_type = "dismissed"
    /\ req.arg.interaction.intervention_instance_id \in DOMAIN instances
    /\ instances[req.arg.interaction.intervention_instance_id].status = "dismissed"

\* C17: when the status change of a tapped or dismissed interaction fails,
\* the interaction row is in the log and stays there, and the request is
\* answered with success.
C17_RowKeptWhenStatusChangeFails ==
    [][/\ interactions \subseteq interactions'
       /\ (Answered /\ req.op = "app_interactions"
              /\ req'.result.update = "failed")
          => /\ req'.result.http = 200
             /\ Cardinality(AppendedRows) = 1
             /\ instances' = instances]_vars

\* C17 (witness): a tapped event about an instance that exists was
\* answered with success after its status change failed; its row is in the
\* log and the instance has the status it had.
C17_Witness ==
    /\ req.op = "app_interactions" /\ req.done
    /\ req.result.http = 200 /\ req.result.update = "failed"
    /\ req.arg.interaction.event_type = "tapped"
    /\ req.arg.interaction.intervention_instance_id \in DOMAIN instances
    /\ instances[req.arg.interaction.intervention_instance_id].status = "created"
    /\ \E r \in interactions :
          /\ r.event_type = "tapped"
          /\ r.instance_id = req.arg.interaction.intervention_instance_id

\* C18: a request to submit-batch, submit-interaction, get-context or
\* reset without an Authorization header, or with one that is not the word
\* Bearer followed by one token, is answered 401; a submit-interaction
\* whose event names another user than the one the token belongs to is
\* answered 403; and the step that answers 401 or 403 appends no row,
\* changes no status and publishes no message.
C18_RejectedRequestsChangeNothing ==
    /\ [](req.done =>
            LET h == req.arg.authorization IN
            /\ (\/ ~h.present
                \/ Len(h.words) # 2
                \/ h.words[1] \notin {"Bearer", "bearer", "BEARER"})
               => req.result.http = 401
            /\ (/\ req.op = "app_interactions"
                /\ h.present
                /\ Len(h.words) = 2
                /\ h.words[1] \in {"Bearer", "bearer", "BEARER"}
                /\ \/ h.words[2] = "token-U1"
                      /\ req.arg.interaction.user_id # "U1"
                   \/ h.words[2] = "token-U2"
                      /\ req.arg.interaction.user_id # "U2")
               => req.result.http = 403)
    /\ [][(Answered /\ req'.result.http \in {401, 403}) =>
              UNCHANGED <<lock, rawRows, published, estimates, instances,
                          interactions>>]_vars

\* C18 (witness): a submit-interaction under the header "Basic <token>"
\* was answered 401 while an instance exists.
C18_Witness ==
    /\ req.op = "app_interactions" /\ req.done
    /\ req.arg.authorization.words = <<"Basic", "token-U1">>
    /\ req.result.http = 401
    /\ instances # <<>>
    /\ interactions = {}

C20_SavedInterventions ==
    [][\A q \in DOMAIN ctx :
          (ctx[q].pc = "read" /\ ctx'[q].pc = "done" /\ ctx'[q].http = 200) =>
              LET u == ctx[q].user_id
                  Events(k) == {r \in interactions :
                                   /\ r.user_id = u
                                   /\ r.intervention_key = k
                                   /\ r.event_type \in {"intervention_saved",
                                                         "intervention_unsaved"}}
                  Latest(k) == {r \in Events(k) :
                                   \A o \in Events(k) : o.timestamp <= r.timestamp}
                  AfterReset(r) == \A x \in interactions :
                                      (/\ x.user_id = u
                                       /\ x.event_type = "flow_reset"
                                       /\ x.scope \in {"all", "saved"})
                                      => r.timestamp > x.timestamp
                  Kept(r) == r.event_type = "intervention_saved" /\ AfterReset(r)
              IN  /\ ctx'[q].saved \subseteq SavedKeys
                  /\ \A k \in SavedKeys :
                        /\ k \in ctx'[q].saved => \E r \in Latest(k) : Kept(r)
                        /\ (Latest(k) # {} /\ \A r \in Latest(k) : Kept(r))
                           => k \in ctx'[q].saved]_vars

\* C20 (witness): U1 saved K1 at the time of a reset with scope saved and
\* K2 after it, and a get-context answer lists K2 alone.
C20_Witness ==
    /\ \E q \in DOMAIN ctx : ctx[q].pc = "done" /\ ctx[q].saved = {"K2"}
    /\ \A r \in interactions : r.user_id = "U1"
    /\ \E x \in interactions, r1 \in interactions, r2 \in interactions :
          /\ x.event_type = "flow_reset" /\ x.scope = "saved"
          /\ r1.event_type = "intervention_saved" /\ r1.intervention_key = "K1"
          /\ r1.timestamp = x.timestamp
          /\ r2.event_type = "intervention_saved" /\ r2.intervention_key = "K2"
          /\ r2.timestamp > x.timestamp

\* The log of one user as get_saved_interventions reads it, without the
\* user's name, the interaction ids and the trace ids.
LogOf(rows, user_id) ==
    {[r EXCEPT !.user_id = "U1", !.n = 0, !.trace_id = NoTrace] :
        r \in {x \in rows : x.user_id = user_id}}

\* The events of a log after its last flow_reset with scope all or saved
\* (by timestamp); the whole log when it has no such reset.
AfterLastReset(log) ==
    {r \in log :
        \A x \in log :
            (x.event_type = "flow_reset" /\ x.scope \in {"all", "saved"})
            => r.timestamp > x.timestamp}

\* C21: the saved_interventions of a get-context answer are a result the
\* query has on every other log with the same events after its last
\* flow_reset of scope all or saved: the log of the other user and every
\* part of either log, whatever they hold up to that reset.
C21_SavedIgnoresEventsBeforeReset ==
    [][\A q \in DOMAIN ctx :
          (ctx[q].pc = "read" /\ ctx'[q].pc = "done" /\ ctx'[q].http = 200) =>
              LET mine == LogOf(interactions, ctx[q].user_id)
                  logs == {LogOf(part, u) :
                              part \in SUBSET interactions, u \in Users}
              IN  \A other \in logs :
                      AfterLastReset(other) = AfterLastReset(mine)
                      => /\ ctx'[q].saved \in GetSavedInterventions(other, "U1")
                         /\ GetSavedInterventions(other, "U1")
                              = GetSavedInterventions(mine, "U1")]_vars

\* C21 (witness): U1 saved K1 and K2 before a reset with scope all, U2
\* has no event, and a get-context answer lists no saved key.
C21_Witness ==
    /\ \E q \in DOMAIN ctx :
          ctx[q].pc = "done" /\ ctx[q].http = 200 /\ ctx[q].saved = {}
    /\ \A r \in interactions : r.user_id = "U1"
    /\ \E x \in interactions, r1 \in interactions, r2 \in interactions :
          /\ x.event_type = "flow_reset" /\ x.scope = "all"
          /\ r1.event_type = "intervention_saved" /\ r1.intervention_key = "K1"
          /\ r1.timestamp < x.timestamp
          /\ r2.event_type = "intervention_saved" /\ r2.intervention_key = "K2"
          /\ r2.timestamp < x.timestamp

\* The logs that hold the rows of a log in another arrival order: the
\* interaction ids (the order of arrival) are exchanged, every other field
\* of a row is kept.
ArrivalOrders(rows) ==
    {{[r EXCEPT !.n = p[r.n]] : r \in rows} :
        p \in Permutations(1..Cardinality(rows))}

C23_ResetScopes ==
    [][(Answered /\ req.op = "user_reset" /\ req'.result.http = 200) =>
          LET u == GetCurrentUser(req.arg.authorization).user_id
              scope == req.arg.scope
          IN  /\ scope = "flows" =>
                    GetSavedInterventions(interactions', u)
                       = GetSavedInterventions(interactions, u)
              /\ scope = "saved" =>
                    HasCompletedFlowQuery(interactions', u, "getting_started", "v1")
                       = HasCompletedFlowQuery(interactions, u, "getting_started", "v1")
              /\ scope = "all" =>
                    /\ GetSavedInterventions(interactions', u) = {{}}
                    /\ HasCompletedFlowQuery(interactions', u, "getting_started", "v1")
                          = {FALSE}]_vars

\* The built-in card get_context puts in front of the payload when the
\* flow was not completed: a new intervention_instance_id in every call
\* and a fixed trace_id.
GettingStartedDict(q) ==
    [intervention_instance_id |-> Uuid4("uuid_card", q),
     intervention_key |-> "getting_started_v1", status |-> "created",
     trace_id |-> <<"getting-started-trace-id", 0>>]

\* The interventions of the answer of call q: the card and the instance
\* rows that were read, with the fields of the row.
ContextInterventions(q) ==
    (IF ctx[q].synthetic THEN {GettingStartedDict(q)} ELSE {})
    \cup {[intervention_instance_id |-> i,
           intervention_key |-> instances[i].intervention_key,
           status |-> instances[i].status,
           trace_id |-> instances[i].trace_id] : i \in ctx[q].interventions}

\* A get-context call is answered with success.
CtxAnswered(q) ==
    ctx[q].pc = "read" /\ ctx'[q].pc = "done" /\ ctx'[q].http = 200

\* C24: every get-context answer to a user who has no state estimate and
\* has not completed the flow holds exactly one intervention; it is the
\* user's one instance row with key getting_started_v1, with status
\* created, so that a later answer holds the same instance id.
C24_OneGettingStarted ==
    [][\A q \in DOMAIN ctx :
          LET u == ctx[q].user_id
          IN  (/\ CtxAnswered(q)
               /\ \A e \in estimates : e.user_id # u
               /\ HasCompletedFlow(u, "getting_started", "v1") = {FALSE}
               /\ ~ctx[q].completed) =>
                 /\ Cardinality(ContextInterventions(q)') = 1
                 /\ \A iv \in ContextInterventions(q)' :
                       /\ iv.intervention_key = "getting_started_v1"
                       /\ iv.status = "created"
                       /\ {i \in InstancesOf(u) :
                              instances[i].intervention_key = "getting_started_v1"}
                            = {iv.intervention_instance_id}]_vars

\* C25: a get-context answer to a user whose latest flow_completed /
\* flow_reset event is the completion of getting_started v1, and who has
\* no flow_requested event of the last 5 minutes, holds no intervention
\* with key getting_started_v1, also when an instance with that key was
\* created before the completion.
C25_NoGettingStartedAfterCompletion ==
    [][\A q \in DOMAIN ctx :
          LET u == ctx[q].user_id
          IN  (/\ CtxAnswered(q)
               /\ ctx[q].completed
               /\ HasCompletedFlow(u, "getting_started", "v1") = {TRUE}
               /\ ~FlowRequested(u)) =>
                 \A iv \in ContextInterventions(q)' :
                    iv.intervention_key # "getting_started_v1"]_vars

\* C26: every intervention of a get-context answer has a trace_id, also
\* when the instance row that was read has none.
C26_TraceIdInEveryIntervention ==
    [][\A q \in DOMAIN ctx :
          CtxAnswered(q) =>
             \A iv \in ContextInterventions(q)' : iv.trace_id # NoTrace]_vars

\* C27: the instance rows of a get-context answer have status created
\* when the answer is given, and a row whose status is no longer created
\* (a tapped or dismissed interaction was applied to it, or the selector
\* marked it sent) never has status created again: no later answer holds it.
C27_OnlyCreatedInstances ==
    [][/\ \A q \in DOMAIN ctx :
             CtxAnswered(q) =>
                /\ \A i \in ctx'[q].interventions :
                      /\ i \in DOMAIN instances'
                      /\ instances'[i].status = "created"
                /\ \A iv \in ContextInterventions(q)' : iv.status = "created"
       /\ \A i \in DOMAIN instances :
             instances[i].status # "created" =>
                /\ i \in DOMAIN instances'
                /\ instances'[i].status # "created"]_vars

\* C27 (witness): the first get-context of U1 returned the instance it
\* created; the app tapped it and the selector marked another instance of
\* U1 sent; the second get-context of U1 returned no instance row.
C27_Witness ==
    /\ DOMAIN ctx = 1..2
    /\ ctx[1].pc = "done" /\ ctx[1].http = 200 /\ ctx[1].user_id = "U1"
    /\ ctx[2].pc = "done" /\ ctx[2].http = 200 /\ ctx[2].user_id = "U1"
    /\ \E i \in ctx[1].interventions : instances[i].status = "accepted"
    /\ \E i \in InstancesOf("U1") : instances[i].status = "sent"
    /\ ctx[2].interventions = {}

\* C30: a selector run whose chosen key begins with getting_started_
\* ends at the gate, with no instance appended and no push sent, when the
\* flow version of the key is not completed and the user has an instance
\* with that key and status created; and goes on to append an instance
\* when the flow version is completed, whatever instances exist.
C30_GettingStartedGate ==
    [][\A p \in DOMAIN sel :
          (sel[p].pc = "gate" /\ sel'[p] # sel[p]
             /\ StartsWithGettingStarted(sel[p].intervention.intervention_key)) =>
             LET key == sel[p].intervention.intervention_key
                 u == sel[p].user_id
                 completed == HasCompletedFlow(u, "getting_started",
                                               VersionOfKey(key))
             IN  /\ (completed = {FALSE} /\ ExistingCreated(u, key) # {}) =>
                       /\ sel'[p] = SelDone("skipped")
                       /\ instances' = instances
                 /\ completed = {TRUE} => sel'[p].pc = "create"]_vars

C29_ErrorsPropagate ==
    [][\A r \in DOMAIN estimator :
          /\ (estimator[r].pc = "idle" /\ estimator'[r].pc # "idle") =>
                /\ ~estimator'[r].project_id =>
                      /\ estimator'[r].pc = "done"
                      /\ estimator'[r].outcome = "raised"
                      /\ ~estimator'[r].acked
                /\ estimator'[r].project_id => estimator'[r].pc = "views"
          /\ (estimator[r].pc \in {"views", "transform"}
                /\ estimator'[r].pc = "done") =>
                /\ estimator'[r].outcome = "raised"
                /\ ~estimator'[r].acked
                /\ estimates' = estimates /\ topic' = topic]_vars

----------------------------------------------------------------------------
(* Claims about the failures of the selector's handler.                    *)

\* C31: when the insert of the intervention-instance row fails the handler
\* raises (the message is redelivered) and that run sends no push and
\* changes no status: the run ends there and the table is as it was.  A
\* push is only sent by a run whose row is in the table before the push.
C31_InsertFailureIsFatal ==
    [][\A p \in DOMAIN sel :
          /\ (sel[p].pc = "create" /\ sel'[p] # sel[p]
                /\ <<"sel", p>> \notin DOMAIN instances')
             => /\ sel'[p].pc = "done"
                /\ sel'[p].outcome = "raised"
                /\ instances' = instances
          /\ (sel[p].pc # "done" /\ sel'[p].pc = "done"
                /\ sel'[p].outcome \in {"sent", "push_failed"})
             => /\ sel[p].pc = "push"
                /\ sel[p].instance_id \in DOMAIN instances
          /\ sel[p].pc = "done" => sel'[p] = sel[p]]_vars

\* C31 (witness): a run raised at the insert of the row of the intervention
\* it had selected; the table has no row of that run.
C31_Witness ==
    \E p \in DOMAIN sel :
        /\ sel[p].pc = "done"
        /\ sel[p].outcome = "raised"
        /\ sel[p].intervention # NoIntervention
        /\ <<"sel", p>> \notin DOMAIN instances

\* C32: a state-estimates message that is empty, cannot be decoded, or
\* lacks user_id or timestamp is acknowledged (the handler returns, it
\* does not raise) and causes no write to the warehouse and no push.
C32_MalformedMessageDropped ==
    [][\A p \in DOMAIN sel :
          (/\ \/ req.arg.envelope # "ok"
              \/ req.arg.text # "object"
              \/ req.arg.user_id = ""
              \/ req.arg.timestamp = 0
           /\ sel[p].pc = "idle" /\ sel'[p].pc # "idle")
          => /\ sel'[p].pc = "done"
             /\ sel'[p].outcome = "dropped"
             /\ instances' = instances]_vars

\* C36: the selector decides from the latest state estimate of the user
\* at the time the message is processed, whatever timestamp the message
\* carries: a stale, duplicated or reordered message gives a selection and
\* an inherited trace id that the message naming the latest row can give.
C36_DecisionFromLatestRow ==
    [][\A p \in DOMAIN sel :
          /\ (/\ sel[p].pc = "idle" /\ sel'[p].pc # "idle"
              /\ req.arg.envelope = "ok" /\ req.arg.text = "object"
              /\ req.arg.user_id # "" /\ req.arg.timestamp # 0)
             => LET u == req.arg.user_id IN
                \/ sel'[p].outcome = "raised"
                \/ sel'[p].outcome = "no_state" /\ LatestEstimates(u) = {}
                \/ \E e \in LatestEstimates(u),
                      prefs \in {SurfacePreferences(u), NoPreferences},
                      catalog_ok \in BOOLEAN :
                      LET iv == SelectIntervention(e.stress, prefs, catalog_ok)
                      IN  IF iv = NoIntervention
                          THEN sel'[p].outcome = "none_selected"
                          ELSE /\ sel'[p].pc \in {"gate", "create"}
                               /\ sel'[p].user_id = u
                               /\ sel'[p].intervention = iv
                               /\ sel'[p].est_trace = e.trace_id
          /\ (sel[p].pc = "create" /\ sel'[p].pc = "push")
             => \E e \in LatestEstimates(req.arg.user_id) :
                   /\ instances'[<<"sel", p>>].user_id = e.user_id
                   /\ Truthy(e.trace_id)
                        => instances'[<<"sel", p>>].trace_id = e.trace_id]_vars

\* C36 (witness): the message names the state estimate of time 1, a high
\* stress with another trace id; the latest row of the user is the low
\* stress of time 2 without a trace id, and the two runs the message was
\* delivered to both selected for low stress, the first appended its row.
C36_Witness ==
    /\ req.arg.envelope = "ok" /\ req.arg.text = "object"
    /\ req.arg.user_id = "U1" /\ req.arg.timestamp = 1
    /\ estimates =
          {[user_id |-> "U1", trace_id |-> <<"client", 1>>,
            stress |-> 8500, timestamp |-> 1],
           [user_id |-> "U1", trace_id |-> NoTrace,
            stress |-> 2000, timestamp |-> 2]}
    /\ <<"sel", 1>> \in DOMAIN instances
    /\ instances[<<"sel", 1>>].level = "low"
    /\ instances[<<"sel", 1>>].trace_id # <<"client", 1>>
    /\ sel[2].pc \in {"gate", "create", "push"}
    /\ sel[2].intervention.level = "low"

----------------------------------------------------------------------------
(* Claims about has_completed_flow.                                        *)

\* C33: has_completed_flow(user, flow_id, version) is true exactly when the
\* user has a flow_completed event of that flow_id and version and no
\* flow_reset with scope all or flows has a later timestamp than that
\* event.  (An event without a version counts as one of v1.)
C33_CompletedUnlessResetLater ==
    [][(~req.done /\ req'.done) =>
          (req'.result
           <=> \E c \in interactions :
                  /\ c.user_id = req.arg[1]
                  /\ c.event_type = "flow_completed"
                  /\ c.flow_id = req.arg[2]
                  /\ \/ c.flow_version = req.arg[3]
                     \/ c.flow_version = "" /\ req.arg[3] = "v1"
                  /\ \A r \in interactions :
                        (/\ r.user_id = req.arg[1]
                         /\ r.event_type = "flow_reset"
                         /\ r.scope \in {"all", "flows"})
                        => r.timestamp <= c.timestamp)]_vars

----------------------------------------------------------------------------
(* Claims about what get-context appends.                                  *)

\* C34: a get-context call of a user whose getting_started flow is
\* completed and who has no flow_requested event for getting_started in
\* the last 5 minutes appends no row; when the flow is completed, such an
\* event exists and the user has no getting_started_v1 instance with
\* status created, the call appends exactly one such instance (or fails).
C34_AppendsOnRequest ==
    [][\A q \in DOMAIN ctx :
          /\ (ctx[q].pc = "idle" /\ ctx'[q].pc # "idle"
                /\ ctx'[q].user_id \in Users
                /\ HasCompletedFlow(ctx'[q].user_id, "getting_started", "v1")
                      = {TRUE})
             => LET u == ctx'[q].user_id
                IN  /\ ~FlowRequested(u) => ctx'[q].pc # "create"
                    /\ (/\ FlowRequested(u)
                        /\ ExistingCreated(u, "getting_started_v1") = {})
                       => ctx'[q].pc = "create"
          /\ (ctx[q].pc = "create" /\ ctx'[q].pc # "create"
                /\ ctx[q].completed)
             => /\ DOMAIN instances' = DOMAIN instances \cup {<<"ctx", q>>}
                /\ <<"ctx", q>> \notin DOMAIN instances
                /\ instances'[<<"ctx", q>>].user_id = ctx[q].user_id
                /\ instances'[<<"ctx", q>>].intervention_key
                      = "getting_started_v1"
                /\ instances'[<<"ctx", q>>].status = "created"
          /\ (ctx[q].pc # "create" /\ <<"ctx", q>> \in DOMAIN instances')
             => <<"ctx", q>> \in DOMAIN instances]_vars

----------------------------------------------------------------------------
(* Claims about the status codes of the gateway's authentication.          *)

\* C35: a request with a bearer token that verifies but whose user the
\* repository does not know is answered 404, one whose token does not
\* verify is answered 401, and 500 is only the answer to a failure of a
\* store or of the provider.
C35_AuthStatusCodes ==
    [][(/\ Answered
        /\ req.arg.authorization.present
        /\ Len(req.arg.authorization.words) = 2
        /\ Lower(req.arg.authorization.words[1]) = "bearer"
        /\ req.arg.authorization.words[2] # "mock.token")
       => LET subject == TokenSubject(req.arg.authorization.words[2]) IN
          /\ subject = "" => req'.result.http = 401
          /\ (subject # "" /\ subject \notin Users) => req'.result.http = 404
          /\ req'.result.http = 500 =>
                /\ subject \in Users
                /\ req.op = "app_interactions"
                /\ interactions' = interactions]_vars

----------------------------------------------------------------------------
(* Claims about the dedup lock and the raw-batch table.                    *)

\* C37: whenever the dedup lock of a (user, fetched_at) exists and no
\* submit-batch call for that key is running, the raw-batch table holds a
\* row of that (user, fetched_at).
C37_LockImpliesRow ==
    \A k \in DedupKeys :
        (/\ lock[k].exists
         /\ \A c \in CallIds :
               call[c].pc \in {"idle", "done"} \/ KeyOfCall(c) # k)
        => \E r \in rawRows : r.user_id = k[1] /\ r.fetched_at = k[2]

----------------------------------------------------------------------------
(* Claims about whose instances a request can change.                      *)

\* C38: submit-interaction by an authenticated user never changes the
\* status of an intervention instance that belongs to another user.
C38_OwnInstancesOnly ==
    [][(Answered /\ req.op = "app_interactions")
       => \A i \in DOMAIN instances :
             instances'[i].status # instances[i].status
             => instances[i].user_id
                  = TokenSubject(req.arg.authorization.words[2])]_vars

\* C39: at every moment every user has at most one instance with
\* intervention_key getting_started_v1 and status created, however the
\* get-context calls and the selector runs of the user interleave.
C39_OneCreatedOnboardingInstance ==
    \A u \in Users :
        Cardinality(ExistingCreated(u, "getting_started_v1")) <= 1

----------------------------------------------------------------------------
(* Claims about the conversational agent.                                  *)

\* C40: while the agent handles a request of user A, the context loaded
\* into the prompt of that request and the context update_user_context
\* saves for it are A's, also when a request of another user is handled
\* at the same time.
C40_OwnContextOnly ==
    \A r \in DOMAIN agent.run :
        /\ agent.run[r].injected \subseteq {agent.run[r].user_id}
        /\ agent.run[r].saved \subseteq {agent.run[r].user_id}

====
